---- MODULE Spec2Model ----
(***************************************************************************)
(* The analytics pipeline of AgroBot-Intelligence: DataProcessor           *)
(* (src/utils/data_processing.py), AgriculturalAI                          *)
(* (src/services/agricultural_ai.py) and AlertSystem                       *)
(* (src/components/alerts.py).                                             *)
(*                                                                         *)
(* Conventions.                                                            *)
(*  - A Python dict is a function whose DOMAIN is its key set; {} is <<>>. *)
(*  - A sensor value is a tagged record: Num(x) a float, Str a string that *)
(*    float() rejects, NoneV the Python None.  An absent key is outside    *)
(*    the DOMAIN.                                                          *)
(*  - Every physical quantity is fixed-point, in TENTHS of its unit        *)
(*    (Humidity 22 % is 220, pH 5.8 is 58, wind 25 m/s is 250), so the     *)
(*    code's one-decimal thresholds are integers.  Time is in minutes.     *)
(*  - A float computed by the code is kept exact: Rat(n, d) is n/d,        *)
(*    Root(s, n, d) is s*sqrt(n/d), Inf(s) is +-inf, NaN is nan (what      *)
(*    numpy float64 arithmetic yields on x/0 and 0/0).                     *)
(*  - The outcome of a call is Ret(value) or Exc(type).                    *)
(***************************************************************************)
EXTENDS Integers, Sequences, FiniteSets, TLC

VARIABLES sensor_data, historical_data, weather_data, forecast_data, now,
          pc, data_quality, processed_data, recommendations, alerts,
          shown, rendered

vars == <<sensor_data, historical_data, weather_data, forecast_data, now,
          pc, data_quality, processed_data, recommendations, alerts,
          shown, rendered>>

inputs == <<sensor_data, historical_data, weather_data, forecast_data>>

----------------------------------------------------------------------------
(* Python values *)

Num(x) == [k |-> "num", v |-> x]
Str == [k |-> "str", v |-> 0]
NoneV == [k |-> "none", v |-> 0]

None == [None |-> TRUE]
IsNone(x) == "None" \in DOMAIN x
EmptyDict == <<>>

Ret(x) == [ret |-> x]
Exc(t) == [exc |-> t]
NotCalled == [pending |-> TRUE]
Returned(r) == "ret" \in DOMAIN r
Raised(r) == "exc" \in DOMAIN r

\* dict.get(key, default)
Get(d, key, default) == IF key \in DOMAIN d THEN d[key] ELSE default

\* float(x) succeeds
Convertible(x) == x.k = "num"

\* the exception float(x) raises: ValueError on a string, TypeError on None
FloatError(x) == IF x.k = "none" THEN "TypeError" ELSE "ValueError"

Abs(x) == IF x < 0 THEN -x ELSE x
Sq(x) == x * x
Sign(x) == IF x > 0 THEN 1 ELSE IF x < 0 THEN -1 ELSE 0
Max2(a, b) == IF a > b THEN a ELSE b
Min2(a, b) == IF a < b THEN a ELSE b

----------------------------------------------------------------------------
(* Exact floats *)

Rat(n, d) == [k |-> "rat", s |-> 1, n |-> n, d |-> d]
Root(s, n, d) == [k |-> "root", s |-> s, n |-> n, d |-> d]
Inf(s) == [k |-> "inf", s |-> s, n |-> 0, d |-> 0]
NaN == [k |-> "nan", s |-> 0, n |-> 0, d |-> 0]

IsFinite(x) == x.k \in {"rat", "root"}
IsNaN(x) == x.k = "nan"

\* a/b under IEEE-754: x/0 is +-inf, 0/0 is nan (b carries no sign here)
Div(a, b) ==
  IF b = 0 THEN (IF a = 0 THEN NaN ELSE Inf(Sign(a)))
  ELSE IF b < 0 THEN Rat(-a, -b) ELSE Rat(a, b)

\* comparisons of Rat values (false on anything else, as on nan)
RatLe(x, y) == x.k = "rat" /\ y.k = "rat" /\ x.n * y.d <= y.n * x.d
RatLt(x, y) == x.k = "rat" /\ y.k = "rat" /\ x.n * y.d < y.n * x.d
RatEq(x, y) == x.k = "rat" /\ y.k = "rat" /\ x.n * y.d = y.n * x.d

\* comparisons of a Root value s*sqrt(n/d) with a rational p/q, p >= 0, q > 0
RootGt(x, p, q) == x.k = "root" /\ x.s > 0 /\ x.n * q * q > p * p * x.d
RootLtNeg(x, p, q) == x.k = "root" /\ x.s < 0 /\ x.n * q * q > p * p * x.d
\* |x| > p/q, for a Root or an infinity
MagGt(x, p, q) ==
  \/ x.k = "inf"
  \/ x.k = "root" /\ x.s # 0 /\ x.n * q * q > p * p * x.d
\* |x| <= 1
MagLeOne(x) == x.k = "root" /\ (x.s = 0 \/ x.n <= x.d)

----------------------------------------------------------------------------
(* pandas helpers: a DataFrame is a function from column names to equally   *)
(* long sequences of Num(x) / NoneV (NaN); pd.DataFrame() has no columns.   *)

sensor_fields ==
  <<"Temperature", "Humidity", "pH", "Nitrogen",
    "Phosphorus", "Potassium", "Conductivity", "TDS">>

FieldSet == {sensor_fields[i] : i \in 1..Len(sensor_fields)}

\* len(df)
DfLen(df) ==
  IF DOMAIN df = {} THEN 0 ELSE Len(df[CHOOSE c \in DOMAIN df : TRUE])

\* df.empty
DfEmpty(df) == DfLen(df) = 0

IsNumV(x) == x.k = "num"

\* df[field].dropna(), as the sequence of its numbers
DropNa(col) ==
  LET kept == SelectSeq(col, IsNumV)
  IN  [i \in 1..Len(kept) |-> kept[i].v]

RECURSIVE SumSeq(_)
SumSeq(x) == IF x = <<>> THEN 0 ELSE x[1] + SumSeq(Tail(x))

SumSq(x) == SumSeq([i \in 1..Len(x) |-> x[i] * x[i]])

\* sum of (i-1) * x[i]: the products with np.arange(len(x))
SumIdx(x) == SumSeq([i \in 1..Len(x) |-> (i - 1) * x[i]])

RECURSIVE Insert(_, _)
Insert(v, s) ==
  IF s = <<>> THEN <<v>>
  ELSE IF v <= s[1] THEN <<v>> \o s
  ELSE <<s[1]>> \o Insert(v, Tail(s))

RECURSIVE SortAsc(_)
SortAsc(x) == IF x = <<>> THEN <<>> ELSE Insert(x[1], SortAsc(Tail(x)))

\* a variant that interpolates between the values in arrival order
QuantileUnsorted(x, num, den) ==
  LET pos == (Len(x) - 1) * num
      lo  == pos \div den
      fr  == pos % den
  IN  IF fr = 0 THEN Rat(den * x[lo + 1], den)
      ELSE Rat(den * x[lo + 1] + fr * (x[lo + 2] - x[lo + 1]), den)

\* Series.quantile(num/den), interpolation='linear': position (n-1)*num/den
\* between the order statistics
Quantile(x, num, den) ==
  LET srt == SortAsc(x)
      pos == (Len(x) - 1) * num
      lo  == pos \div den
      fr  == pos % den
  IN  IF fr = 0 THEN Rat(den * srt[lo + 1], den)
      ELSE Rat(den * srt[lo + 1] + fr * (srt[lo + 2] - srt[lo + 1]), den)

\* n*sum(x^2) - sum(x)^2 = n*(n-1)*var(x, ddof=1)
VarNum(x) == Len(x) * SumSq(x) - Sq(SumSeq(x))

\* Series.mean()
Mean(x) == Rat(SumSeq(x), Len(x))

\* Series.std() (ddof=1): nan for one point
Std(x) ==
  IF Len(x) < 2 THEN NaN
  ELSE Root(Sign(VarNum(x)), VarNum(x), Len(x) * (Len(x) - 1))

FieldStats(x) ==
  [mean   |-> Mean(x),
   median |-> Quantile(x, 1, 2),
   std    |-> Std(x),
   min    |-> Rat(SortAsc(x)[1], 1),
   max    |-> Rat(SortAsc(x)[Len(x)], 1),
   q25    |-> Quantile(x, 1, 4),
   q75    |-> Quantile(x, 3, 4),
   count  |-> Len(x)]

StatFields(df) ==
  {f \in FieldSet : f \in DOMAIN df /\ Len(DropNa(df[f])) > 0}

calculate_statistics(df) ==
  [f \in StatFields(df) |-> FieldStats(DropNa(df[f]))]

----------------------------------------------------------------------------
(* _analyze_trends *)

\* a variant that keeps the sign of the covariance alone
CorrelationSign(y) ==
  LET c == Len(y) * SumIdx(y) - SumSeq([i \in 1..Len(y) |-> i - 1]) * SumSeq(y)
  IN  IF VarNum(y) = 0 THEN NaN ELSE Root(Sign(c), 1, 1)

\* np.corrcoef(np.arange(n), y)[0, 1]: nan when y has zero variance
Correlation(y) ==
  LET n   == Len(y)
      idx == [i \in 1..n |-> i - 1]
      c   == n * SumIdx(y) - SumSeq(idx) * SumSeq(y)
      vx  == VarNum(idx)
      vy  == VarNum(y)
  IN  IF vx * vy = 0 THEN NaN ELSE Root(Sign(c), c * c, vx * vy)

\* ((tail(5).mean() - iloc[-10:-5].mean()) / iloc[-10:-5].mean()) * 100
RecentChange(y) ==
  LET n        == Len(y)
      recent   == SumSeq(SubSeq(y, n - 4, n))
      previous == SumSeq(SubSeq(y, n - 9, n - 5))
  IN  Div(100 * (recent - previous), previous)

\* abs(x)
FloatAbs(x) ==
  IF x.k = "rat" THEN Rat(Abs(x.n), x.d)
  ELSE IF x.k \in {"root", "inf"} THEN [x EXCEPT !.s = Abs(x.s)]
  ELSE x

FieldTrend(y) ==
  LET correlation == Correlation(y)
      change_pct  == IF Len(y) >= 10 THEN RecentChange(y) ELSE Rat(0, 1)
  IN  [direction |-> IF RootGt(correlation, 1, 10) THEN "increasing"
                     ELSE IF RootLtNeg(correlation, 1, 10) THEN "decreasing"
                     ELSE "stable",
       strength |-> FloatAbs(correlation),
       recent_change_pct |-> change_pct,
       correlation |-> correlation]

TrendFields(df) ==
  {f \in FieldSet : f \in DOMAIN df /\ Len(DropNa(df[f])) >= 3}

analyze_trends(df) ==
  IF DfLen(df) < 3 THEN EmptyDict
  ELSE [f \in TrendFields(df) |-> FieldTrend(DropNa(df[f]))]

----------------------------------------------------------------------------
(* _detect_anomalies *)

\* a variant that compares against any history of two points or more
EnoughHistoryLoose(hv) == Len(hv) >= 2

\* len(historical_values) >= 10
EnoughHistory(hv) == Len(hv) >= 10

\* the fields whose current value is compared with their history
ComparedFields(current_data, history) ==
  {f \in FieldSet : /\ f \in DOMAIN current_data
                    /\ f \in DOMAIN history
                    /\ EnoughHistory(DropNa(history[f]))}

\* n * (current_value - mean_val)
Deviation(c, hv) == Len(hv) * c - SumSeq(hv)

\* abs(current_value - mean_val) > 2 * std_val, both sides squared and
\* multiplied by n*n*(n-1)
BeyondTwoStd(c, hv) ==
  Sq(Deviation(c, hv)) * (Len(hv) - 1) > 4 * Len(hv) * VarNum(hv)

\* (current_value - mean_val) / std_val, a float64 division: +-inf on a zero
\* std_val (the deviation is not 0 where this is evaluated)
ZScore(c, hv) ==
  IF VarNum(hv) = 0
  THEN (IF Deviation(c, hv) = 0 THEN NaN ELSE Inf(Sign(Deviation(c, hv))))
  ELSE Root(Sign(Deviation(c, hv)),
            Sq(Deviation(c, hv)) * (Len(hv) - 1), Len(hv) * VarNum(hv))

\* expected_range [mean - 2*std, mean + 2*std] is kept as its centre and
\* half-width 2*std = sqrt(4*var)
Anomaly(f, c, hv) ==
  [field |-> f,
   current_value |-> Rat(c, 1),
   expected_range |-> [centre |-> Mean(hv),
                       half |-> Root(Sign(VarNum(hv)), 4 * VarNum(hv),
                                     Len(hv) * (Len(hv) - 1))],
   z_score |-> ZScore(c, hv),
   severity |-> IF MagGt(ZScore(c, hv), 3, 1) THEN "high" ELSE "medium"]

detect_anomalies(current_data, history) ==
  LET compared == ComparedFields(current_data, history)
      Flagged(f) == /\ f \in compared
                    /\ BeyondTwoStd(current_data[f].v, DropNa(history[f]))
      flagged == SelectSeq(sensor_fields, Flagged)
  IN  IF \E f \in compared : ~Convertible(current_data[f])
      THEN Exc("TypeError")   \* str - float, None - float
      ELSE Ret([i \in 1..Len(flagged) |->
                  Anomaly(flagged[i], current_data[flagged[i]].v,
                          DropNa(history[flagged[i]]))])

----------------------------------------------------------------------------
(* _assess_data_quality *)

Time(t) == [k |-> "time", v |-> t]
Ago(m) == [k |-> "ago", v |-> m]

RatAdd(x, y) == Rat(x.n * y.d + y.n * x.d, x.d * y.d)
RatScale(x, num, den) == Rat(x.n * num, x.d * den)

\* a variant whose buckets include their upper limit
FreshnessInclusive(data, clock) ==
  IF "timestamp" \notin DOMAIN data
  THEN [freshness |-> "unknown", sensor_status |-> "unknown", last_update |-> NoneV]
  ELSE IF data["timestamp"].k # "time"
  THEN [freshness |-> "unknown", sensor_status |-> "error", last_update |-> NoneV]
  ELSE LET minutes_old == clock - data["timestamp"].v
           last == Ago(minutes_old)
       IN  IF minutes_old <= 5
           THEN [freshness |-> "excellent", sensor_status |-> "online", last_update |-> last]
           ELSE IF minutes_old <= 15
           THEN [freshness |-> "good", sensor_status |-> "online", last_update |-> last]
           ELSE IF minutes_old <= 60
           THEN [freshness |-> "fair", sensor_status |-> "delayed", last_update |-> last]
           ELSE IF minutes_old <= 360
           THEN [freshness |-> "poor", sensor_status |-> "intermittent", last_update |-> last]
           ELSE [freshness |-> "stale", sensor_status |-> "offline", last_update |-> last]

\* the freshness block: [freshness, sensor_status, last_update]
Freshness(data, clock) ==
  IF "timestamp" \notin DOMAIN data
  THEN [freshness |-> "unknown", sensor_status |-> "unknown", last_update |-> NoneV]
  ELSE IF data["timestamp"].k # "time"
  THEN [freshness |-> "unknown", sensor_status |-> "error", last_update |-> NoneV]
  ELSE LET minutes_old == clock - data["timestamp"].v
           last == Ago(minutes_old)
       IN  IF minutes_old < 5
           THEN [freshness |-> "excellent", sensor_status |-> "online", last_update |-> last]
           ELSE IF minutes_old < 15
           THEN [freshness |-> "good", sensor_status |-> "online", last_update |-> last]
           ELSE IF minutes_old < 60
           THEN [freshness |-> "fair", sensor_status |-> "delayed", last_update |-> last]
           ELSE IF minutes_old < 360
           THEN [freshness |-> "poor", sensor_status |-> "intermittent", last_update |-> last]
           ELSE [freshness |-> "stale", sensor_status |-> "offline", last_update |-> last]

critical_fields == {"Temperature", "Humidity", "pH"}

\* present, not None, not blank, and float() accepts it
present_fields(data) ==
  {f \in FieldSet : f \in DOMAIN data /\ Convertible(data[f])}

\* a variant whose weights do not add up to 1
CompletenessUnderweighted(data) ==
  RatAdd(RatScale(Rat(Cardinality(present_fields(data)) * 100, Len(sensor_fields)), 6, 10),
         RatScale(Rat(Cardinality(present_fields(data) \cap critical_fields) * 100,
                      Cardinality(critical_fields)), 3, 10))

Completeness(data) ==
  LET base_completeness == Rat(Cardinality(present_fields(data)) * 100, Len(sensor_fields))
      critical_completeness ==
        Rat(Cardinality(present_fields(data) \cap critical_fields) * 100,
            Cardinality(critical_fields))
  IN  RatAdd(RatScale(base_completeness, 6, 10), RatScale(critical_completeness, 4, 10))

\* a variant that charges 15 points for every value outside the physical
\* range, whatever the field
RangePenaltyFlat(field, value) ==
  IF field = "Temperature"
  THEN (IF ~(-200 <= value /\ value <= 700) THEN <<15, 1>>
        ELSE IF value < -100 \/ value > 550 THEN <<5, 0>> ELSE <<0, 0>>)
  ELSE IF field = "Humidity"
  THEN (IF ~(0 <= value /\ value <= 1000) THEN <<15, 1>>
        ELSE IF value > 950 \/ value < 50 THEN <<5, 0>> ELSE <<0, 0>>)
  ELSE IF field = "pH"
  THEN (IF ~(0 <= value /\ value <= 140) THEN <<15, 1>>
        ELSE IF value < 30 \/ value > 110 THEN <<10, 0>> ELSE <<0, 0>>)
  ELSE IF field \in {"Nitrogen", "Phosphorus", "Potassium"}
  THEN (IF value < 0 \/ value > 2000 THEN <<15, 1>> ELSE <<0, 0>>)
  ELSE IF field = "Conductivity"
  THEN (IF value < 0 \/ value > 50000 THEN <<15, 1>> ELSE <<0, 0>>)
  ELSE IF field = "TDS"
  THEN (IF value < 0 \/ value > 30000 THEN <<15, 1>> ELSE <<0, 0>>)
  ELSE <<0, 0>>

\* the range check of one present field: <<penalty, anomaly_count increment>>
RangePenalty(field, value) ==
  IF field = "Temperature"
  THEN (IF ~(-200 <= value /\ value <= 700) THEN <<15, 1>>
        ELSE IF value < -100 \/ value > 550 THEN <<5, 0>> ELSE <<0, 0>>)
  ELSE IF field = "Humidity"
  THEN (IF ~(0 <= value /\ value <= 1000) THEN <<15, 1>>
        ELSE IF value > 950 \/ value < 50 THEN <<5, 0>> ELSE <<0, 0>>)
  ELSE IF field = "pH"
  THEN (IF ~(0 <= value /\ value <= 140) THEN <<20, 1>>
        ELSE IF value < 30 \/ value > 110 THEN <<10, 0>> ELSE <<0, 0>>)
  ELSE IF field \in {"Nitrogen", "Phosphorus", "Potassium"}
  THEN (IF value < 0 \/ value > 2000 THEN <<10, 1>> ELSE <<0, 0>>)
  ELSE IF field = "Conductivity"
  THEN (IF value < 0 \/ value > 50000 THEN <<10, 1>> ELSE <<0, 0>>)
  ELSE IF field = "TDS"
  THEN (IF value < 0 \/ value > 30000 THEN <<10, 1>> ELSE <<0, 0>>)
  ELSE <<0, 0>>

\* abs(tds - conductivity*0.65) > conductivity*0.65*0.5, times 40
CrossCheckPenalty(data) ==
  IF {"Conductivity", "TDS"} \subseteq present_fields(data)
     /\ Abs(40 * data["TDS"].v - 26 * data["Conductivity"].v)
          > 13 * data["Conductivity"].v
  THEN 8 ELSE 0

RangeTotals(data) ==
  LET pen == [i \in 1..Len(sensor_fields) |->
                IF sensor_fields[i] \in present_fields(data)
                THEN RangePenalty(sensor_fields[i], data[sensor_fields[i]].v)
                ELSE <<0, 0>>]
  IN  <<SumSeq([i \in 1..Len(pen) |-> pen[i][1]]),
        SumSeq([i \in 1..Len(pen) |-> pen[i][2]])>>

IsEmpty(d) == IsNone(d) \/ DOMAIN d = {}

\* a variant of the early return that leaves the status at 'unknown'
OfflineQualityUnknown ==
  [freshness |-> "unknown", completeness |-> Rat(0, 1), reliability |-> 0,
   last_update |-> NoneV, sensor_status |-> "unknown"]

\* the early return on `not data`
OfflineQuality ==
  [freshness |-> "unknown", completeness |-> Rat(0, 1), reliability |-> 0,
   last_update |-> NoneV, sensor_status |-> "offline"]

\* the quality of a non-empty reading whose freshness block is `fresh`
ScoredQuality(data, fresh) ==
  LET reliability_score == 100 - RangeTotals(data)[1] - CrossCheckPenalty(data)
  IN  [freshness |-> fresh.freshness,
       completeness |-> Completeness(data),
       reliability |-> Max2(0, Min2(100, reliability_score)),
       last_update |-> fresh.last_update,
       sensor_status |-> fresh.sensor_status,
       anomaly_count |-> RangeTotals(data)[2]]

\* a variant whose reliability score decays with the age of the reading
assess_data_quality_aged(data, history, clock) ==
  IF IsEmpty(data) THEN OfflineQuality
  ELSE LET fresh == Freshness(data, clock)
       IN  [ScoredQuality(data, fresh) EXCEPT
              !.reliability = IF fresh.freshness \in {"poor", "stale"}
                              THEN Max2(0, @ - 20) ELSE @]

assess_data_quality(data, history, clock) ==
  IF IsEmpty(data) THEN OfflineQuality
  ELSE ScoredQuality(data, Freshness(data, clock))

----------------------------------------------------------------------------
(* process_sensor_data *)

process_sensor_data(current_data, history, clock) ==
  IF IsEmpty(current_data) THEN Ret(EmptyDict)
  ELSE LET found == IF DfEmpty(history) THEN Ret(<<>>)
                    ELSE detect_anomalies(current_data, history)
       IN  IF Raised(found) THEN found
           ELSE Ret([current |-> current_data,
                     statistics |-> IF DfEmpty(history) THEN EmptyDict
                                    ELSE calculate_statistics(history),
                     trends |-> IF DfEmpty(history) THEN EmptyDict
                                ELSE analyze_trends(history),
                     anomalies |-> found.ret,
                     data_quality |->
                       assess_data_quality(current_data, history, clock)])

----------------------------------------------------------------------------
(* AgriculturalAI.  A weather snapshot is None or a dict of numbers; a      *)
(* forecast is a list of dicts of numbers, except the keys 'rain' and       *)
(* 'precipitation', which hold Num(x) or Dict3h(x) (the dict {'3h': x}).    *)

Dict3h(x) == [k |-> "dict", v |-> x]

Rec(priority, action, reason, timing) ==
  [priority |-> priority, action |-> action, reason |-> reason, timing |-> timing]

Risk(priority, type, description, mitigation) ==
  [priority |-> priority, type |-> type, description |-> description,
   mitigation |-> mitigation]

When(cond, rec) == IF cond THEN <<rec>> ELSE <<>>

\* forecast_data[:k]
FirstPoints(forecast, k) == SubSeq(forecast, 1, Min2(k, Len(forecast)))

\* the rain one forecast point adds: only the keys 'rain' / 'precipitation'
RainOf(point) ==
  LET rain_key == IF "rain" \in DOMAIN point THEN "rain" ELSE "precipitation"
  IN  IF rain_key \in DOMAIN point THEN point[rain_key].v ELSE 0

\* rain summed over the next 8 forecast points
UpcomingRain(forecast) ==
  SumSeq([i \in 1..Len(FirstPoints(forecast, 8)) |-> RainOf(FirstPoints(forecast, 8)[i])])

\* the first value of `keys` (in order) that float() rejects, as the error
\* raised; "" when all convert
RECURSIVE FirstFloatError(_, _)
FirstFloatError(d, keys) ==
  IF keys = <<>> THEN ""
  ELSE IF keys[1] \in DOMAIN d /\ ~Convertible(d[keys[1]])
       THEN FloatError(d[keys[1]])
       ELSE FirstFloatError(d, Tail(keys))

\* float(current_data.get(key, default))
Flt(d, key, default) == IF key \in DOMAIN d THEN d[key].v ELSE default

\* a variant that ignores the temperature: every immediate irrigation is high
ImmediatePriorityAlwaysHigh(current_temp) == "high"

\* priority = 'high' if current_temp > 28 else 'medium'
ImmediatePriority(current_temp) == IF current_temp > 280 THEN "high" ELSE "medium"

IrrigationBand(soil_humidity, current_temp, upcoming_rain) ==
  IF soil_humidity < 250
  THEN (IF upcoming_rain > 100
        THEN <<Rec("medium", "Light irrigation before expected rain",
                   "Soil critically dry but heavy rain expected",
                   "Light watering in 2-3 hours, then monitor rainfall")>>
        ELSE <<Rec(ImmediatePriority(current_temp),
                   "Immediate deep irrigation required",
                   "Critical soil moisture, minimal rain expected",
                   "Within 1-2 hours - early morning or evening preferred")>>)
  ELSE IF soil_humidity < 400
  THEN (IF upcoming_rain > 50
        THEN <<Rec("low", "Monitor soil conditions",
                   "Soil moisture adequate with rain expected",
                   "Check again after rainfall")>>
        ELSE <<Rec("medium", "Moderate irrigation recommended",
                   "Soil moisture below optimal, no significant rain forecast",
                   "Next 4-6 hours, preferably early morning")>>)
  ELSE IF soil_humidity > 750
  THEN <<Rec("low", "Reduce or skip irrigation",
             "Soil moisture high - risk of waterlogging",
             "Monitor drainage, avoid irrigation for 24-48 hours")>>
  ELSE <<>>

analyze_irrigation_needs(current_data, weather, forecast) ==
  LET err == FirstFloatError(current_data, <<"Humidity", "Temperature">>)
      soil_humidity == Flt(current_data, "Humidity", 0)
      current_temp == Flt(current_data, "Temperature", 250)
  IN  IF err # "" THEN Exc(err)
      ELSE Ret(IrrigationBand(soil_humidity, current_temp, UpcomingRain(forecast))
               \o When(current_temp > 320 /\ soil_humidity < 500,
                       Rec("high", "Heat stress mitigation irrigation",
                           "High temperature with moderate soil moisture",
                           "Immediate light irrigation, then evening watering")))

NitrogenBand(nitrogen) ==
  IF nitrogen < 100
  THEN <<Rec("high", "Emergency nitrogen application",
             "Severe nitrogen deficiency detected - crops at risk",
             "Apply high-nitrogen fertilizer within 24 hours")>>
  ELSE IF nitrogen < 200
  THEN <<Rec("medium", "Nitrogen supplementation needed",
             "Low nitrogen levels below optimal range (20-50 ppm)",
             "Apply nitrogen-rich fertilizer within 2-3 days")>>
  ELSE IF nitrogen > 600
  THEN <<Rec("medium", "Reduce nitrogen inputs",
             "Nitrogen levels excessive - environmental risk",
             "Skip next nitrogen application, monitor growth")>>
  ELSE <<>>

PhosphorusBand(phosphorus) ==
  IF phosphorus < 80
  THEN <<Rec("high", "Phosphorus fertilization critical",
             "Extremely low phosphorus affects root development",
             "Apply phosphorus fertilizer immediately")>>
  ELSE IF phosphorus < 150
  THEN <<Rec("medium", "Increase phosphorus application",
             "Phosphorus below optimal", "Next fertilization cycle")>>
  ELSE IF phosphorus > 500
  THEN <<Rec("low", "Reduce phosphorus applications",
             "High phosphorus levels - runoff risk",
             "Skip phosphorus in next 2 applications")>>
  ELSE <<>>

PotassiumBand(potassium) ==
  IF potassium < 120
  THEN <<Rec("high", "Potassium supplementation urgent",
             "Critical potassium deficiency affects disease resistance",
             "Apply potassium fertilizer within 48 hours")>>
  ELSE IF potassium < 200
  THEN <<Rec("medium", "Increase potassium levels",
             "Low potassium may affect fruit quality",
             "Next regular fertilization")>>
  ELSE <<>>

PhBand(ph) ==
  IF ph < 58
  THEN <<Rec("high", "Immediate soil pH correction with lime",
             "Acidic soil severely limits nutrient uptake",
             "Apply agricultural lime before any other fertilizers")>>
  ELSE IF ph > 78
  THEN <<Rec("high", "Lower soil pH with sulfur amendments",
             "Alkaline soil reduces iron and phosphorus availability",
             "Apply elemental sulfur, monitor pH weekly")>>
  ELSE IF 58 <= ph /\ ph <= 62
  THEN <<Rec("medium", "Light lime application recommended",
             "Slightly acidic pH - optimal range is 6.0-7.5",
             "Light lime application in next month")>>
  ELSE <<>>

analyze_fertilization_needs(current_data) ==
  LET err == FirstFloatError(current_data,
               <<"Nitrogen", "Phosphorus", "Potassium", "pH", "Conductivity">>)
  IN  IF err # "" THEN Exc(err)
      ELSE Ret(NitrogenBand(Flt(current_data, "Nitrogen", 0))
               \o PhosphorusBand(Flt(current_data, "Phosphorus", 0))
               \o PotassiumBand(Flt(current_data, "Potassium", 0))
               \o PhBand(Flt(current_data, "pH", 70))
               \o When(Flt(current_data, "Conductivity", 0) > 2500,
                       Rec("high", "Address soil salinity before fertilizing",
                           "High soil salinity reduces fertilizer effectiveness",
                           "Increase leaching irrigation before next fertilizer application")))

\* a variant that divides by 3.6 where the code multiplies
WindOverInverted(wind_speed, kmh) == 10 * wind_speed > 36 * 10 * kmh

\* wind_speed * 3.6 > kmh, wind_speed in tenths of m/s
WindOver(wind_speed, kmh) == 36 * wind_speed > 100 * kmh

SprayingBand(wind_speed, current_temp) ==
  IF WindOver(wind_speed, 20)
  THEN <<Rec("high", "Cancel all spraying operations",
             "Dangerous wind speed - high drift risk",
             "Wait for wind speeds below 15 km/h")>>
  ELSE IF WindOver(wind_speed, 15)
  THEN <<Rec("medium", "Postpone spraying operations",
             "High wind speed may cause drift",
             "Wait for calmer conditions (<10 km/h)")>>
  ELSE IF 36 * wind_speed >= 300 /\ 36 * wind_speed <= 1000 /\ current_temp < 280
  THEN <<Rec("low", "Excellent spraying conditions",
             "Optimal wind and temperature",
             "Current conditions ideal for pesticide/herbicide application")>>
  ELSE <<>>

FieldWorkBand(current_temp) ==
  IF current_temp > 350
  THEN <<Rec("high", "Avoid midday field operations",
             "Extreme heat - equipment and crop stress",
             "Limit activities to early morning (5-8 AM) or evening (6-8 PM)")>>
  ELSE IF current_temp < 50
  THEN <<Rec("medium", "Delay outdoor activities",
             "Low temperature may damage equipment and crops",
             "Wait for temperatures above 8C")>>
  ELSE <<>>

\* np.mean / np.std (ddof=0) of the first 5 forecast temperatures:
\* 15 <= mean <= 28 is 750 <= sum <= 1400 in tenths, std < 5 is
\* 5*sum(t^2) - sum(t)^2 < 25 * 50^2
PlantingWindow(forecast, current_temp) ==
  IF Len(forecast) < 5 THEN <<>>
  ELSE LET temps == [i \in 1..5 |-> Get(forecast[i], "temperature", current_temp)]
           total == SumSeq(temps)
           spread == 5 * SumSq(temps) - Sq(total)
       IN  IF 750 <= total /\ total <= 1400 /\ spread < 62500
           THEN <<Rec("low", "Favorable planting window", "Stable temperatures",
                      "Next 3-5 days optimal for planting operations")>>
           ELSE IF spread > 160000
           THEN <<Rec("medium", "Wait for stable weather",
                      "High temperature variation not ideal for planting",
                      "Delay planting until weather stabilizes")>>
           ELSE <<>>

analyze_optimal_timing(weather, forecast, current_data) ==
  IF IsNone(weather) THEN Ret(<<>>)
  ELSE LET current_temp == Get(weather, "temperature", 250)
           wind_speed == Get(weather, "wind_speed", 0)
           err == FirstFloatError(current_data, <<"Temperature">>)
       IN  IF err # "" THEN Exc(err)
           ELSE Ret(SprayingBand(wind_speed, current_temp)
                    \o FieldWorkBand(current_temp)
                    \o PlantingWindow(forecast, current_temp))

TemperatureRisk(temp) ==
  IF temp > 380
  THEN <<Risk("high", "Severe Heat Stress",
              "Extreme soil temperature - immediate crop damage likely",
              "Emergency irrigation, shade cloth installation, harvest early if possible")>>
  ELSE IF temp > 330
  THEN <<Risk("medium", "Heat Stress Warning",
              "High soil temperature - monitor crop stress indicators",
              "Increase irrigation frequency, provide midday shade, monitor plant wilting")>>
  ELSE IF temp < 80
  THEN <<Risk("high", "Frost Risk",
              "Low soil temperature - frost damage possible",
              "Deploy frost protection measures, cover sensitive plants, monitor overnight")>>
  ELSE <<>>

DiseaseRisk(humidity, weather) ==
  IF IsNone(weather) THEN <<>>
  ELSE LET air_temp == Get(weather, "temperature", 250)
           air_humidity == Get(weather, "humidity", 500)
           risk_score3 == (humidity - 750) + (air_humidity - 700) + Abs(air_temp - 240)
       IN  When(humidity > 750 /\ 180 <= air_temp /\ air_temp <= 300 /\ air_humidity > 700,
                Risk(IF risk_score3 > 450 THEN "high" ELSE "medium",
                     "High Fungal Disease Risk",
                     "Optimal conditions for fungal growth",
                     "Apply preventive fungicide, improve air circulation, reduce leaf wetness duration"))
           \o When(humidity > 800 /\ air_temp > 250,
                   Risk("medium", "Bacterial Disease Risk",
                        "High moisture and temperature favor bacterial pathogens",
                        "Avoid overhead irrigation, improve drainage, apply copper-based bactericide if needed"))

LockoutRisk(ph) ==
  When(ph < 50 \/ ph > 85,
       Risk(IF ph < 45 \/ ph > 90 THEN "high" ELSE "medium",
            "Severe Nutrient Lockout",
            "Extreme pH prevents nutrient absorption - crop failure risk",
            "Emergency pH correction required, foliar feeding as temporary measure"))

\* the next-24-hours aggregates of the forecast
ForecastRisk(forecast) ==
  IF Len(forecast) = 0 THEN <<>>
  ELSE LET pts == FirstPoints(forecast, 8)
           total_rain == UpcomingRain(forecast)
           windy == {i \in 1..Len(pts) : "wind_speed" \in DOMAIN pts[i]}
           cold == {i \in 1..Len(pts) :
                      "temperature" \in DOMAIN pts[i] /\ pts[i]["temperature"] < 20}
       IN  (IF total_rain > 750
            THEN <<Risk("high", "Flood Risk",
                        "Excessive rainfall predicted - waterlogging likely",
                        "Ensure drainage systems clear, harvest ready crops, protect equipment")>>
            ELSE IF total_rain > 400
            THEN <<Risk("medium", "Heavy Rain Warning",
                        "Heavy rainfall expected - field access may be limited",
                        "Complete urgent field work now, prepare drainage, delay fertilizer applications")>>
            ELSE <<>>)
           \o When(\E i \in windy : WindOver(pts[i]["wind_speed"], 60),
                   Risk("high", "Storm Damage Risk",
                        "High winds predicted - crop and equipment damage possible",
                        "Secure loose equipment, provide crop support, avoid tall machinery operations"))
           \o When(cold # {},
                   Risk("high", "Freeze Warning",
                        "Freezing temperatures expected - crop damage likely",
                        "Deploy frost protection, harvest sensitive crops, drain irrigation lines"))

assess_agricultural_risks(current_data, weather, forecast) ==
  LET err == FirstFloatError(current_data, <<"Temperature", "Humidity", "pH">>)
  IN  IF err # "" THEN Exc(err)
      ELSE Ret(TemperatureRisk(Flt(current_data, "Temperature", 250))
               \o DiseaseRisk(Flt(current_data, "Humidity", 500), weather)
               \o LockoutRisk(Flt(current_data, "pH", 70))
               \o ForecastRisk(forecast))

SalinityBand(conductivity) ==
  IF conductivity > 3000
  THEN <<Rec("high", "Critical salinity management needed",
             "Very high soil salinity - crop damage imminent",
             "Begin heavy leaching irrigation immediately")>>
  ELSE IF conductivity > 2000
  THEN <<Rec("medium", "Monitor and reduce soil salinity",
             "Elevated soil salinity may affect sensitive crops",
             "Increase leaching irrigation over next week")>>
  ELSE <<>>

\* datetime.month of a parsed timestamp (minutes since the start of a
\* year of twelve 30-day months)
MonthOf(t) == ((t \div 43200) % 12) + 1

SeasonalHint(current_data) ==
  IF "timestamp" \notin DOMAIN current_data \/ current_data["timestamp"].k # "time"
  THEN <<>>
  ELSE LET month == MonthOf(current_data["timestamp"].v)
       IN  IF month \in {12, 1, 2}
           THEN <<Rec("low", "Winter crop protection measures",
                      "Winter season - consider cold-hardy varieties and protection",
                      "Review cold protection strategies")>>
           ELSE IF month \in {6, 7, 8}
           THEN <<Rec("low", "Summer heat management",
                      "Summer season - implement heat stress mitigation strategies",
                      "Prepare shade structures and cooling systems")>>
           ELSE <<>>

\* freshness in ['poor', 'unknown'] or completeness < 70
QualityConcern(processed) ==
  LET quality == IF IsEmpty(processed) THEN EmptyDict
                 ELSE Get(processed, "data_quality", EmptyDict)
      freshness == Get(quality, "freshness", "unknown")
      completeness == Get(quality, "completeness", Rat(0, 1))
  IN  freshness \in {"poor", "unknown"} \/ RatLt(completeness, Rat(70, 1))

generate_general_recommendations(current_data, weather, processed) ==
  LET err == FirstFloatError(current_data, <<"Conductivity", "TDS">>)
      conductivity == Flt(current_data, "Conductivity", 0)
      tds == Flt(current_data, "TDS", 0)
  IN  IF err # "" THEN Exc(err)
      ELSE Ret(SalinityBand(conductivity)
               \o When(Abs(67 * conductivity - 100 * tds) > 50000,
                       Rec("low", "Calibrate sensors",
                           "Conductivity and TDS readings inconsistent",
                           "Check sensor calibration at next maintenance"))
               \o When(QualityConcern(processed),
                       Rec("medium", "Check sensor system health",
                           "Data quality concerns",
                           "Inspect sensors and connectivity within 24 hours"))
               \o SeasonalHint(current_data))

NoRecommendations ==
  [irrigation |-> <<>>, fertilization |-> <<>>, timing |-> <<>>,
   risk_assessment |-> <<>>, general |-> <<>>]

\* current_data = sensor_data.get('current', {}) if sensor_data else {}
CurrentOf(processed) ==
  IF IsEmpty(processed) THEN EmptyDict ELSE Get(processed, "current", EmptyDict)

\* a variant that tests `current_data is None` alone
NoCurrentNoneOnly(current_data) == IsNone(current_data)

\* if not current_data
NoCurrent(current_data) == IsEmpty(current_data)

generate_recommendations(processed, weather, forecast) ==
  LET current_data == CurrentOf(processed)
      irrigation_recs == analyze_irrigation_needs(current_data, weather, forecast)
      fertilization_recs == analyze_fertilization_needs(current_data)
      timing_recs == analyze_optimal_timing(weather, forecast, current_data)
      risk_recs == assess_agricultural_risks(current_data, weather, forecast)
      general_recs == generate_general_recommendations(current_data, weather, processed)
  IN  IF NoCurrent(current_data)
      THEN Ret([NoRecommendations EXCEPT !.general =
                  <<Rec("high", "Check sensor connectivity",
                        "No sensor data available - unable to generate recommendations",
                        "Immediate")>>])
      ELSE IF Raised(irrigation_recs) THEN irrigation_recs
      ELSE IF Raised(fertilization_recs) THEN fertilization_recs
      ELSE IF Raised(timing_recs) THEN timing_recs
      ELSE IF Raised(risk_recs) THEN risk_recs
      ELSE IF Raised(general_recs) THEN general_recs
      ELSE Ret([irrigation |-> irrigation_recs.ret,
                fertilization |-> fertilization_recs.ret,
                timing |-> timing_recs.ret,
                risk_assessment |-> risk_recs.ret,
                general |-> general_recs.ret])

----------------------------------------------------------------------------
(* AlertSystem *)

Alert(priority, title, message, action) ==
  [priority |-> priority, title |-> title, message |-> message, action |-> action]

TemperatureAlert(temp) ==
  IF temp <= 100
  THEN <<Alert("critical", "Extreme Cold Temperature",
               "Temperature critically low - crop damage possible",
               "Activate heating systems, protect sensitive plants")>>
  ELSE IF temp >= 400
  THEN <<Alert("critical", "Extreme Heat Temperature",
               "Temperature critically high - heat stress likely",
               "Increase irrigation, provide shade, improve ventilation")>>
  ELSE IF temp <= 150
  THEN <<Alert("warning", "Low Temperature Warning",
               "Temperature below optimal",
               "Monitor closely, consider protection measures")>>
  ELSE IF temp >= 350
  THEN <<Alert("warning", "High Temperature Warning",
               "Temperature above optimal",
               "Increase irrigation frequency, monitor plant stress")>>
  ELSE <<>>

MoistureAlert(humidity) ==
  IF humidity <= 200
  THEN <<Alert("critical", "Severe Drought Conditions",
               "Soil moisture critically low",
               "Emergency irrigation required immediately")>>
  ELSE IF humidity <= 300
  THEN <<Alert("warning", "Low Soil Moisture",
               "Soil moisture below optimal",
               "Schedule irrigation within next few hours")>>
  ELSE IF humidity >= 900
  THEN <<Alert("warning", "Waterlogged Conditions",
               "Soil moisture very high - risk of root rot",
               "Improve drainage, reduce irrigation")>>
  ELSE <<>>

PhAlert(ph) ==
  IF ph <= 45
  THEN <<Alert("critical", "Extremely Acidic Soil",
               "Soil pH critically low - nutrient lockout likely",
               "Apply lime immediately to raise pH")>>
  ELSE IF ph >= 90
  THEN <<Alert("critical", "Extremely Alkaline Soil",
               "Soil pH critically high - nutrient deficiency likely",
               "Apply sulfur or acidifying agents")>>
  ELSE IF ph <= 55 \/ ph >= 80
  THEN <<Alert("warning", "Suboptimal Soil pH",
               "Soil pH outside optimal range (6.0-7.5)",
               "Plan pH adjustment for next maintenance cycle")>>
  ELSE <<>>

NutrientAlerts(nitrogen, phosphorus, potassium) ==
  (IF nitrogen <= 50
   THEN <<Alert("critical", "Severe Nitrogen Deficiency",
                "Nitrogen critically low", "Apply nitrogen fertilizer immediately")>>
   ELSE IF nitrogen <= 150
   THEN <<Alert("warning", "Low Nitrogen Levels",
                "Nitrogen below optimal", "Schedule nitrogen fertilization")>>
   ELSE <<>>)
  \o When(phosphorus <= 50,
          Alert("warning", "Low Phosphorus Levels",
                "Phosphorus low", "Consider phosphorus supplementation"))
  \o When(potassium <= 50,
          Alert("warning", "Low Potassium Levels",
                "Potassium low", "Apply potassium-rich fertilizer"))

\* a comparison of a str or None with a number raises TypeError
HasNonNumber(data, keys) ==
  \E i \in 1..Len(keys) : keys[i] \in DOMAIN data /\ ~Convertible(data[keys[i]])

check_sensor_alerts(data) ==
  IF HasNonNumber(data, <<"Temperature", "Humidity", "pH",
                          "Nitrogen", "Phosphorus", "Potassium">>)
  THEN Exc("TypeError")
  ELSE Ret(TemperatureAlert(Flt(data, "Temperature", 250))
           \o MoistureAlert(Flt(data, "Humidity", 500))
           \o PhAlert(Flt(data, "pH", 70))
           \o NutrientAlerts(Flt(data, "Nitrogen", 200), Flt(data, "Phosphorus", 150),
                             Flt(data, "Potassium", 200)))

\* a variant that alerts on every anomaly, whatever its severity
IsHighOrMedium(anomaly) == anomaly.severity \in {"high", "medium"}

check_data_quality_alerts(quality) ==
  LET completeness == Get(quality, "completeness", Rat(100, 1))
      freshness == Get(quality, "freshness", "good")
  IN  (IF RatLt(completeness, Rat(50, 1))
       THEN <<Alert("critical", "Sensor Data Incomplete",
                    "Only part of the sensors reporting",
                    "Check sensor connections and power supply")>>
       ELSE IF RatLt(completeness, Rat(80, 1))
       THEN <<Alert("warning", "Some Sensors Offline",
                    "sensor completeness", "Verify all sensors are functioning")>>
       ELSE <<>>)
      \o (IF freshness = "poor"
          THEN <<Alert("critical", "Stale Sensor Data",
                       "Sensor data is more than 1 hour old",
                       "Check robot connectivity and sensor operation")>>
          ELSE IF freshness = "fair"
          THEN <<Alert("warning", "Outdated Sensor Data",
                       "Sensor data may be outdated",
                       "Verify real-time data transmission")>>
          ELSE <<>>)

IsHigh(anomaly) == anomaly.severity = "high"

check_anomaly_alerts(anomalies) ==
  LET high == SelectSeq(anomalies, IsHigh)
  IN  [i \in 1..Len(high) |->
         Alert("warning", "Unusual " \o high[i].field \o " Reading",
               high[i].field \o " is significantly different from normal patterns",
               "Verify sensor calibration and inspect field conditions")]

check_weather_alerts(weather, data) ==
  LET wind_speed == Get(weather, "wind_speed", 0)
      rainfall == Get(weather, "rainfall_1h", 0)
      air_temp == Get(weather, "temperature", 250)
  IN  IF HasNonNumber(data, <<"Temperature">>) THEN Exc("TypeError")
      ELSE Ret((IF wind_speed > 200
                THEN <<Alert("critical", "High Wind Alert",
                             "Wind speed high - avoid spraying operations",
                             "Postpone pesticide/fertilizer applications, secure equipment")>>
                ELSE IF wind_speed > 100
                THEN <<Alert("warning", "Moderate Wind Warning",
                             "Wind speed may affect spray operations",
                             "Use caution with spray applications")>>
                ELSE <<>>)
               \o When(rainfall > 100,
                       Alert("info", "Heavy Rainfall Detected", "Current rainfall",
                             "Skip irrigation, monitor for flooding"))
               \o When(Abs(air_temp - Flt(data, "Temperature", 250)) > 150,
                       Alert("info", "Large Temperature Differential",
                             "Air and soil temperatures differ significantly",
                             "Monitor for rapid temperature changes")))

check_system_health_alerts(data, clock) ==
  IF HasNonNumber(data, <<"Conductivity">>) THEN Exc("TypeError")
  ELSE Ret(When(Flt(data, "Conductivity", 1000) > 3000,
                Alert("warning", "High Soil Salinity",
                      "Electrical conductivity high",
                      "Increase leaching irrigation to reduce salt buildup"))
           \o When(/\ "timestamp" \in DOMAIN data
                   /\ data["timestamp"].k = "time"
                   /\ clock - data["timestamp"].v > 120,
                   Alert("warning", "Communication Issue",
                         "Robot has not reported data for over 2 hours",
                         "Check robot power and network connectivity")))

generate_alerts(processed, weather, clock) ==
  IF IsNone(processed) THEN Exc("AttributeError")   \* None.get
  ELSE IF IsEmpty(Get(processed, "current", EmptyDict)) THEN Ret(<<>>)
  ELSE LET current_data == processed["current"]
           sensor == check_sensor_alerts(current_data)
           quality == check_data_quality_alerts(Get(processed, "data_quality", EmptyDict))
           anomaly == check_anomaly_alerts(Get(processed, "anomalies", <<>>))
           wx == IF IsNone(weather) THEN Ret(<<>>)
                 ELSE check_weather_alerts(weather, current_data)
           health == check_system_health_alerts(current_data, clock)
       IN  IF Raised(sensor) THEN sensor
           ELSE IF Raised(wx) THEN wx
           ELSE IF Raised(health) THEN health
           ELSE Ret(sensor.ret \o quality \o anomaly \o wx.ret \o health.ret)

\* [a for a in alerts if a['priority'] == priority]
Bucket(alert_list, priority) ==
  LET Has(a) == a.priority = priority IN SelectSeq(alert_list, Has)

\* a variant that renders the warnings ahead of the critical alerts
render_alerts_warnings_first(alert_list) ==
  Bucket(alert_list, "warning") \o Bucket(alert_list, "critical")
    \o Bucket(alert_list, "info")

\* display_critical_alerts: the alerts in the order they are rendered
render_alerts(alert_list) ==
  Bucket(alert_list, "critical") \o Bucket(alert_list, "warning")
    \o Bucket(alert_list, "info")

\* st.success(...), kept in the shape of an alert
AllNormal ==
  Alert("success", "All systems operating within normal parameters", "", "")

\* what display_critical_alerts puts on the page for a list of alerts
display_critical_alerts(alert_list) ==
  IF alert_list = <<>> THEN <<AllNormal>> ELSE render_alerts(alert_list)

----------------------------------------------------------------------------
(* Dashboard.display_recommendations *)

\* priority_order.get(x.get('priority', 'low'), 3)
priority_order(rec) ==
  LET priority == IF "priority" \in DOMAIN rec THEN rec.priority ELSE "low"
  IN  IF priority = "high" THEN 0
      ELSE IF priority = "medium" THEN 1
      ELSE IF priority = "low" THEN 2
      ELSE 3

\* a variant that renders a category in the order the engine built it
SortedAsBuilt(recs) == SubSeq(recs, 1, Len(recs))

\* sorted(recs, key=...): a stable sort on the four keys
Sorted(recs) ==
  LET Key(k) == LET Has(r) == priority_order(r) = k IN SelectSeq(recs, Has)
  IN  Key(0) \o Key(1) \o Key(2) \o Key(3)

\* the entries of every category in the order they are rendered; a category
\* with no entry renders nothing
display_recommendations(recs) ==
  IF IsEmpty(recs) THEN EmptyDict
  ELSE [category \in DOMAIN recs |-> Sorted(recs[category])]

----------------------------------------------------------------------------
(* The feeds: what ThingSpeakAPI and WeatherAPI hand to the core. *)

WithField(d, f, v) == [k \in DOMAIN d \cup {f} |-> IF k = f THEN v ELSE d[k]]
Without(d, f) == [k \in DOMAIN d \ {f} |-> d[k]]

\* a reading with every sensor in its optimal range
HealthyReading ==
  [Temperature |-> Num(250), Humidity |-> Num(500), pH |-> Num(65),
   Nitrogen |-> Num(300), Phosphorus |-> Num(200), Potassium |-> Num(300),
   Conductivity |-> Num(1000), TDS |-> Num(650), timestamp |-> Time(0)]

\* a reading of a hot, wet, alkaline, saline, depleted soil
StressedReading ==
  [Temperature |-> Num(390), Humidity |-> Num(820), pH |-> Num(92),
   Nitrogen |-> Num(80), Phosphorus |-> Num(60), Potassium |-> Num(100),
   Conductivity |-> Num(3500), TDS |-> Num(500), timestamp |-> Time(0)]

\* a reading with every sensor outside its physical range
BrokenReading ==
  [Temperature |-> Num(900), Humidity |-> Num(1200), pH |-> Num(150),
   Nitrogen |-> Num(-10), Phosphorus |-> Num(2500), Potassium |-> Num(-5),
   Conductivity |-> Num(60000), TDS |-> Num(-10), timestamp |-> Time(0)]

BaseReadings == {HealthyReading, StressedReading, BrokenReading}

\* values on both sides of the thresholds the engines test, per field
FieldLevels(f) ==
  IF f = "Temperature" THEN {50, 300, 340, 400}
  ELSE IF f = "Humidity" THEN {150, 220, 300, 800, 950}
  ELSE IF f = "pH" THEN {40, 50, 60, 95}
  ELSE IF f = "Nitrogen" THEN {30, 120, 700}
  ELSE IF f = "Phosphorus" THEN {40, 100, 600}
  ELSE IF f = "Potassium" THEN {40, 150}
  ELSE IF f = "Conductivity" THEN {2600, 3500}
  ELSE {0, 2000}

FieldValues(f) == {Num(x) : x \in FieldLevels(f)} \cup {Str, NoneV}

\* a base reading, or one with a single field changed or missing
Readings ==
  BaseReadings
  \cup UNION {{WithField(b, f, v) : b \in BaseReadings, v \in FieldValues(f)} :
              f \in FieldSet}
  \cup {Without(b, f) : b \in BaseReadings, f \in FieldSet}

Weather(temperature, humidity, wind_speed, rainfall_1h) ==
  [temperature |-> temperature, humidity |-> humidity,
   wind_speed |-> wind_speed, rainfall_1h |-> rainfall_1h]

CalmWeather == Weather(250, 500, 20, 0)
GaleWeather == Weather(220, 600, 250, 0)
MuggyWeather == Weather(270, 800, 120, 120)

Weathers == {None, CalmWeather, GaleWeather, MuggyWeather}

\* a forecast point as WeatherAPI.get_forecast builds it
ApiPoint(temperature, humidity, wind_speed, rainfall) ==
  [temperature |-> temperature, humidity |-> humidity,
   wind_speed |-> wind_speed, rainfall |-> rainfall]

DryPoint == ApiPoint(240, 500, 20, 0)
WetPoint == ApiPoint(240, 900, 30, 60)
\* points of other providers: the rain under 'rain' or 'precipitation'
RainPoint == [temperature |-> 200, wind_speed |-> 30, rain |-> Num(20)]
StormPoint == [temperature |-> 10, wind_speed |-> 200, precipitation |-> Dict3h(100)]

ForecastPoints == {DryPoint, WetPoint, RainPoint, StormPoint}

MaxForecast == 9

ForecastLengths == {4, 5, MaxForecast - 1, MaxForecast}

Repeat(x, n) == [i \in 1..n |-> x]

Forecasts ==
  {<<>>} \cup {Repeat(p, n) : p \in ForecastPoints, n \in ForecastLengths}

EmptyFrame == <<>>

\* a DataFrame of `n` identical rows `row` over all sensor columns
SteadyFrame(row, n) == [f \in FieldSet |-> Repeat(row[f], n)]

\* ten quiet rows; the salinity sensors never reported
QuietRow ==
  [f \in FieldSet |->
     IF f \in {"Temperature", "Humidity", "pH"} THEN HealthyReading[f] ELSE NoneV]

----------------------------------------------------------------------------
(* One pass over the core's interface, in the order main() calls it:       *)
(* process_sensor_data, generate_recommendations, display_critical_alerts. *)
(* The feeds are fixed by the initial state; the scorer is also called on  *)
(* its own first, as the component it is.                                  *)

\* processed data a caller hands to the engines without calling process
ForeignProcessed == {None, [current |-> EmptyDict]}

Fresh ==
  /\ pc = "fetched"
  /\ data_quality = NotCalled
  /\ processed_data = NotCalled
  /\ recommendations = NotCalled
  /\ alerts = NotCalled
  /\ shown = NotCalled
  /\ rendered = NotCalled

Handed ==
  /\ pc = "processed"
  /\ data_quality = NotCalled
  /\ processed_data \in {Ret(p) : p \in ForeignProcessed}
  /\ recommendations = NotCalled
  /\ alerts = NotCalled
  /\ shown = NotCalled
  /\ rendered = NotCalled

\* ten rows in which the temperature swings between 23 and 27 C while the
\* soil moisture and pH stay put
SwingingFrame ==
  [f \in FieldSet |->
     IF f = "Temperature"
     THEN [i \in 1..10 |-> IF i % 2 = 1 THEN Num(230) ELSE Num(270)]
     ELSE Repeat(QuietRow[f], 10)]

\* healthy readings at several temperatures, on moist or on dry soil
WarmReadings ==
  {WithField(WithField(HealthyReading, "Temperature", Num(t)), "Humidity", Num(h)) :
     t \in FieldLevels("Temperature") \cup {250}, h \in {500, 220}}

\* readings that differ in the soil moisture alone
MoistureReadings ==
  BaseReadings
  \cup {WithField(b, "Humidity", Num(x)) : b \in BaseReadings, x \in FieldLevels("Humidity")}

Init ==
  /\ now = 0
  /\ \/ /\ sensor_data \in Readings
        /\ historical_data \in {EmptyFrame, SteadyFrame(QuietRow, 10)}
        /\ weather_data \in Weathers
        /\ forecast_data \in {<<>>, Repeat(DryPoint, MaxForecast - 1)}
        /\ Fresh
     \/ /\ sensor_data \in MoistureReadings
        /\ historical_data = EmptyFrame
        /\ weather_data \in Weathers
        /\ forecast_data \in Forecasts
        /\ Fresh
     \/ /\ sensor_data \in WarmReadings
        /\ historical_data = SwingingFrame
        /\ weather_data \in {None, CalmWeather}
        /\ forecast_data = <<>>
        /\ Fresh
     \/ /\ sensor_data \in {None, EmptyDict}
        /\ historical_data = EmptyFrame
        /\ weather_data \in Weathers
        /\ forecast_data \in Forecasts
        /\ (Fresh \/ Handed)

AssessQuality ==
  /\ pc = "fetched"
  /\ data_quality = NotCalled
  /\ data_quality' = Ret(assess_data_quality(sensor_data, historical_data, now))
  /\ pc' = "scored"
  /\ UNCHANGED <<inputs, now, processed_data, recommendations, alerts, shown, rendered>>

Process ==
  /\ pc \in {"scored", "processed"}
  /\ processed_data' = process_sensor_data(sensor_data, historical_data, now)
  /\ pc' = "processed"
  /\ UNCHANGED <<inputs, now, data_quality, recommendations, alerts, shown, rendered>>

Recommend ==
  /\ pc = "processed"
  /\ Returned(processed_data)
  /\ recommendations' =
       generate_recommendations(processed_data.ret, weather_data, forecast_data)
  /\ pc' = "recommended"
  /\ UNCHANGED <<inputs, now, data_quality, processed_data, alerts, shown, rendered>>

\* display_critical_alerts: _generate_alerts, then the three buckets
DisplayAlerts ==
  /\ pc = "recommended"
  /\ alerts' = generate_alerts(processed_data.ret, weather_data, now)
  /\ shown' = IF Raised(alerts') THEN alerts'
            ELSE Ret(display_critical_alerts(alerts'.ret))
  /\ pc' = "alerted"
  /\ UNCHANGED <<inputs, now, data_quality, processed_data, recommendations, rendered>>

\* the recommendations tab
DisplayRecommendations ==
  /\ pc = "alerted"
  /\ Returned(recommendations)
  /\ rendered' = Ret(display_recommendations(recommendations.ret))
  /\ pc' = "displayed"
  /\ UNCHANGED <<inputs, now, data_quality, processed_data, recommendations,
                 alerts, shown>>

Next ==
  \/ AssessQuality \/ Process \/ Recommend \/ DisplayAlerts
  \/ DisplayRecommendations

Spec == Init /\ [][Next]_vars

----------------------------------------------------------------------------
(* Histories: the statistics, trend and anomaly code on a week of feeds.   *)
(* One column is studied: a steady run of `pad` equal values followed by a *)
(* tail of arbitrary values and gaps (NaN); the current reading of that    *)
(* field varies.  A second column is steady or never reported.             *)

MaxTail == 3
MaxPad == 10

HistoryLevels == {0, 1, 2}

RECURSIVE SeqsUpTo(_, _)
SeqsUpTo(S, n) ==
  IF n = 0 THEN {<<>>}
  ELSE SeqsUpTo(S, n - 1)
       \cup {Append(q, x) : q \in {r \in SeqsUpTo(S, n - 1) : Len(r) = n - 1}, x \in S}

Tails == SeqsUpTo({Num(x) : x \in HistoryLevels} \cup {NoneV}, MaxTail)

\* no steady run, or one that the tail carries to 10 points and beyond
PadLengths == {0, MaxPad - 1, MaxPad}

\* rising feeds: the running sums of up to MaxRise steps of 1 or 2, whole
\* or with one reading missing after the first
MaxRise == 3

Climbs == {c \in SeqsUpTo({1, 2}, MaxRise) : Len(c) >= 2}

Rising(climb) ==
  [i \in 1..(Len(climb) + 1) |-> Num(SumSeq(SubSeq(climb, 1, i - 1)))]

RisingColumns ==
  {Rising(c) : c \in Climbs}
  \cup {<<Num(0), NoneV>> \o Tail(Rising(c)) : c \in Climbs}

StudiedColumns ==
  {Repeat(Num(c), k) \o t : c \in {0, 1}, k \in PadLengths, t \in Tails}
  \cup RisingColumns

\* the DataFrame whose `field` column is `col`, whose Humidity column is
\* `other` repeated, and whose other sensors never reported
StudyFrame(field, col, other) ==
  [f \in FieldSet |->
     IF f = field THEN col
     ELSE IF f = "Humidity" THEN Repeat(other, Len(col))
     ELSE Repeat(NoneV, Len(col))]

StudiedField == "Temperature"

CurrentLevels == {Num(0), Num(1), Num(9), Str}

InitHistory ==
  /\ now = 0
  /\ \E col \in StudiedColumns, cur \in CurrentLevels, other \in {NoneV, Num(400)} :
       /\ sensor_data = WithField(HealthyReading, StudiedField, cur)
       /\ historical_data = StudyFrame(StudiedField, col, other)
  /\ weather_data = CalmWeather
  /\ forecast_data = <<>>
  /\ Fresh

NextHistory == AssessQuality \/ Process

SpecHistory == InitHistory /\ [][NextHistory]_vars

----------------------------------------------------------------------------
(* The clock: the same feeds processed again as time passes. *)

ClockTimes == {0, 4, 5, 14, 15, 59, 60, 120, 121, 359, 360}

StampedReadings ==
  {WithField(b, "timestamp", ts) :
     b \in {HealthyReading, Without(HealthyReading, "TDS"),
            WithField(HealthyReading, "pH", Str),
            StressedReading, BrokenReading},
     ts \in {Time(0), Time(10), Time(259200), Str, NoneV}}
  \cup {Without(HealthyReading, "timestamp")}

InitClock ==
  /\ now \in {0, 259200}
  /\ sensor_data \in StampedReadings
  /\ historical_data = EmptyFrame
  /\ weather_data = CalmWeather
  /\ forecast_data = <<>>
  /\ Fresh

\* time passes between two calls
Tick ==
  /\ pc = "processed"
  /\ \E t \in ClockTimes : t > now % 259200 /\ now' = now - (now % 259200) + t
  /\ UNCHANGED <<inputs, pc, data_quality, processed_data, recommendations, alerts,
               shown, rendered>>

NextClock == Next \/ Tick

SpecClock == InitClock /\ [][NextClock]_vars

----------------------------------------------------------------------------
(* main(), rerun after rerun.  Streamlit runs the script from the top on   *)
(* every rerun; initialize_services is cached, so every run is served by   *)
(* the same DataProcessor, AgriculturalAI and AlertSystem.  No method of   *)
(* these classes assigns to self or writes to a table or list held by      *)
(* self, which is why their thresholds and field lists are definitions and *)
(* not variables.  The variables keep the last value each statement of     *)
(* main() bound, until a later run binds them again.                       *)

\* what get_latest_data hands over: nothing, a healthy reading, a hot one,
\* and one whose temperature is not a number
CycleReadings ==
  {None, HealthyReading, WithField(HealthyReading, "Temperature", Num(400)),
   WithField(HealthyReading, "Temperature", Str)}

CycleFrames == {EmptyFrame, SwingingFrame}

CycleWeathers == {None, CalmWeather}

\* the refresh_interval slider, in minutes
RefreshIntervals == {30}

\* the model's clock stops here; the reruns go on
MaxClock == 60

InitCycles ==
  /\ now = 0
  /\ pc = "start"
  /\ sensor_data = None
  /\ historical_data = EmptyFrame
  /\ weather_data = None
  /\ forecast_data = <<>>
  /\ data_quality = NotCalled
  /\ processed_data = NotCalled
  /\ recommendations = NotCalled
  /\ alerts = NotCalled
  /\ shown = NotCalled
  /\ rendered = NotCalled

\* thingspeak.get_latest_data(), get_historical_data(); st.stop() on no
\* reading, which ends the run there
MainFetchSensor ==
  /\ pc = "start"
  /\ sensor_data' \in CycleReadings
  /\ historical_data' \in CycleFrames
  /\ pc' = IF IsEmpty(sensor_data') THEN "stopped" ELSE "sensed"
  /\ UNCHANGED <<weather_data, forecast_data, now, data_quality, processed_data,
                 recommendations, alerts, shown, rendered>>

\* weather.get_current_weather(), get_forecast()
MainFetchWeather ==
  /\ pc = "sensed"
  /\ weather_data' \in CycleWeathers
  /\ forecast_data' = <<>>
  /\ pc' = "fetched"
  /\ UNCHANGED <<sensor_data, historical_data, now, data_quality, processed_data,
                 recommendations, alerts, shown, rendered>>

\* a variant that carries the anomalies of the previous run over
MainProcessCarryingOver ==
  /\ pc = "fetched"
  /\ LET found == process_sensor_data(sensor_data, historical_data, now)
         carried == IF Returned(processed_data)
                       /\ "anomalies" \in DOMAIN processed_data.ret
                    THEN processed_data.ret.anomalies ELSE <<>>
     IN  processed_data' =
           IF Raised(found) THEN found
           ELSE Ret([found.ret EXCEPT !.anomalies = carried \o @])
  /\ pc' = IF Raised(processed_data') THEN "failed" ELSE "processed"
  /\ UNCHANGED <<inputs, now, data_quality, recommendations, alerts, shown, rendered>>

\* processor.process_sensor_data(sensor_data, historical_data); an
\* exception goes to the handler at the end of main()
MainProcess ==
  /\ pc = "fetched"
  /\ processed_data' = process_sensor_data(sensor_data, historical_data, now)
  /\ pc' = IF Raised(processed_data') THEN "failed" ELSE "processed"
  /\ UNCHANGED <<inputs, now, data_quality, recommendations, alerts, shown, rendered>>

\* ai.generate_recommendations(processed_data, weather_data, forecast_data)
MainRecommend ==
  /\ pc = "processed"
  /\ recommendations' =
       generate_recommendations(processed_data.ret, weather_data, forecast_data)
  /\ pc' = IF Raised(recommendations') THEN "failed" ELSE "recommended"
  /\ UNCHANGED <<inputs, now, data_quality, processed_data, alerts, shown, rendered>>

\* alerts.display_critical_alerts(processed_data, weather_data)
MainAlerts ==
  /\ pc = "recommended"
  /\ alerts' = generate_alerts(processed_data.ret, weather_data, now)
  /\ shown' = IF Raised(alerts') THEN alerts'
            ELSE Ret(display_critical_alerts(alerts'.ret))
  /\ pc' = IF Raised(alerts') THEN "failed" ELSE "alerted"
  /\ UNCHANGED <<inputs, now, data_quality, processed_data, recommendations, rendered>>

\* dashboard.display_recommendations(recommendations)
MainRender ==
  /\ pc = "alerted"
  /\ rendered' = Ret(display_recommendations(recommendations.ret))
  /\ pc' = "displayed"
  /\ UNCHANGED <<inputs, now, data_quality, processed_data, recommendations,
                 alerts, shown>>

\* if auto_refresh: time.sleep(refresh_interval * 60); st.rerun(), reached
\* at the end of the try block or of its except handler
AutoRefresh ==
  /\ pc \in {"displayed", "failed"}
  /\ \E interval \in RefreshIntervals : now' = Min2(MaxClock, now + interval)
  /\ pc' = "start"
  /\ UNCHANGED <<inputs, data_quality, processed_data, recommendations, alerts,
                 shown, rendered>>

\* the Refresh Data button, pressed on a page whose run has ended
ManualRefresh ==
  /\ pc \in {"stopped", "displayed", "failed"}
  /\ pc' = "start"
  /\ UNCHANGED <<inputs, now, data_quality, processed_data, recommendations,
                 alerts, shown, rendered>>

NextCycles ==
  \/ MainFetchSensor \/ MainFetchWeather \/ MainProcess \/ MainRecommend
  \/ MainAlerts \/ MainRender \/ AutoRefresh \/ ManualRefresh

SpecCycles == InitCycles /\ [][NextCycles]_vars

\* the places of a run of main()
Positions ==
  {"start", "sensed", "fetched", "processed", "recommended", "alerted",
   "displayed", "failed", "stopped"}

\* a run that st.stop() has not ended goes on to its next statement
Proceeds == pc # "stopped" /\ pc' \in Positions \ {pc}

\* every statement of main() terminates, the fetches by their timeout and
\* the sleep by its length; nobody has to press the button
SpecAutoRefresh == SpecCycles /\ WF_pc(Proceeds)

(***************************************************************************)
(* Properties of the irrigation rules (Spec).                              *)
(***************************************************************************)
\* the recommendation engine has returned for the reading in sensor_data
Recommended == pc \in {"recommended", "alerted"} /\ Returned(recommendations)

\* no forecast point carries rain under any key
NoRainAhead ==
  \A i \in 1..Len(forecast_data) :
    DOMAIN forecast_data[i] \cap {"rain", "precipitation"} = {}
    /\ forecast_data[i].rainfall = 0

\* soil Humidity 22 %, Temperature 25 C, no rain ahead
DrySoilMildDay ==
  /\ ~IsNone(sensor_data)
  /\ {"Humidity", "Temperature"} \subseteq DOMAIN sensor_data
  /\ sensor_data["Humidity"] = Num(220)
  /\ sensor_data["Temperature"] = Num(250)
  /\ NoRainAhead

\* C1 as the specification words it: with soil Humidity 22, Temperature 25
\* and no rain ahead, the irrigation list is exactly one entry, 'Immediate
\* deep irrigation required', with priority 'high'.
C1_ImmediateIrrigationIsHigh ==
  (Recommended /\ DrySoilMildDay) =>
    LET irrigation == recommendations.ret.irrigation
    IN  /\ Len(irrigation) = 1
        /\ irrigation[1].action = "Immediate deep irrigation required"
        /\ irrigation[1].priority = "high"

\* C1 as the code has it: with soil Humidity 22, Temperature 25 and no rain
\* ahead, the irrigation list is exactly one entry, 'Immediate deep
\* irrigation required', and its priority is 'medium', because the priority
\* is 'high' only above 28 C.
C1_ImmediateIrrigationIsMedium ==
  (Recommended /\ DrySoilMildDay) =>
    LET irrigation == recommendations.ret.irrigation
    IN  /\ Len(irrigation) = 1
        /\ irrigation[1].action = "Immediate deep irrigation required"
        /\ irrigation[1].priority = "medium"

\* the engine has answered for a Humidity 22 / Temperature 25 reading under
\* a forecast of dry points
C1_DrySoilRecommended ==
  Recommended /\ DrySoilMildDay /\ Len(forecast_data) > 0
  /\ Len(recommendations.ret.irrigation) > 0

(***************************************************************************)
(* Properties of the historical analysis (SpecHistory).                    *)
(***************************************************************************)
\* process_sensor_data has returned a full result
Analysed ==
  pc = "processed" /\ Returned(processed_data)
  /\ "anomalies" \in DOMAIN processed_data.ret

\* the non-null history of a field
Series(f) == DropNa(historical_data[f])

\* at least 10 non-null points, all the same value: standard deviation 0
ConstantHistory(f) ==
  /\ Len(Series(f)) >= 10
  /\ \A i \in 1..Len(Series(f)) : Series(f)[i] = Series(f)[1]

\* the anomalies reported for field f
AnomaliesOf(f) ==
  {i \in 1..Len(processed_data.ret.anomalies) :
     processed_data.ret.anomalies[i].field = f}

\* C2 as the specification words it: a field whose history is constant
\* (at least 10 points, standard deviation 0) yields no anomaly for that
\* field, whatever the current value (a division by the zero deviation
\* would show as a reported anomaly with an infinite z_score).
C2_ConstantHistoryHasNoAnomaly ==
  \A f \in FieldSet :
    (Analysed /\ f \in DOMAIN historical_data /\ ConstantHistory(f)) =>
      AnomaliesOf(f) = {}

\* C3 as the specification words it: when the five points before the last
\* five (positions n-10 to n-5) have mean 0, recent_change_pct is 0.
C3_ZeroPreviousMeanGivesZeroChange ==
  \A f \in FieldSet :
    (Analysed /\ f \in DOMAIN processed_data.ret.trends
       /\ Len(Series(f)) >= 10
       /\ SumSeq(SubSeq(Series(f), Len(Series(f)) - 9, Len(Series(f)) - 5)) = 0) =>
      RatEq(processed_data.ret.trends[f].recent_change_pct, Rat(0, 1))

(***************************************************************************)
(* Robustness to a field that float() rejects (Spec).                      *)
(***************************************************************************)
\* one of the eight sensor fields is present and is not a number
HasNonConvertibleField ==
  \E f \in FieldSet \cap DOMAIN sensor_data : ~Convertible(sensor_data[f])

\* C4 as the specification words it: for a reading with a present but
\* non-convertible sensor field, none of process_sensor_data,
\* generate_recommendations and _generate_alerts raises.
C4_NonConvertibleFieldNeverRaises ==
  HasNonConvertibleField =>
    ~Raised(processed_data) /\ ~Raised(recommendations) /\ ~Raised(alerts)

(***************************************************************************)
(* Determinism of process_sensor_data (SpecClock).                         *)
(***************************************************************************)
\* the clock-derived keys of data_quality
ClockKeys == {"freshness", "sensor_status", "last_update"}

\* a ProcessedData with the clock-derived keys of its data_quality removed
TimeFree(p) ==
  IF "data_quality" \in DOMAIN p
  THEN [p EXCEPT !.data_quality = [k \in DOMAIN @ \ ClockKeys |-> @[k]]]
  ELSE p

\* C5 as the specification words it: calling process_sensor_data again on
\* the same reading and history returns the same ProcessedData, data_quality
\* with its freshness, sensor_status and last_update included.
C5_ProcessingIsRepeatable ==
  [][(pc = "processed" /\ pc' = "processed") =>
       processed_data' = processed_data]_vars

\* C5 as the code has it: calling process_sensor_data again on the same
\* reading and history returns the same ProcessedData in every key except
\* data_quality's freshness, sensor_status and last_update, which follow
\* datetime.now() at the time of each call.
C5_ProcessingIsRepeatableApartFromClock ==
  [][(pc = "processed" /\ pc' = "processed") =>
       /\ Returned(processed_data') = Returned(processed_data)
       /\ Returned(processed_data) =>
            TimeFree(processed_data'.ret) = TimeFree(processed_data.ret)]_vars

\* a reading stamped at 0 has been processed again 60 minutes later: its
\* data_quality now says poor / intermittent
C5_ProcessedAgainLater ==
  /\ pc = "processed" /\ now = 60 /\ Returned(processed_data)
  /\ "timestamp" \in DOMAIN sensor_data
  /\ sensor_data["timestamp"] = Time(0)
  /\ processed_data.ret.data_quality.freshness = "poor"
  /\ processed_data.ret.data_quality.last_update = Ago(60)

(***************************************************************************)
(* The missing reading (Spec).                                             *)
(***************************************************************************)
\* processed data that is None, {} or has an empty 'current'
MissingCurrent(p) ==
  \/ IsNone(p)
  \/ DOMAIN p = {}
  \/ ("current" \in DOMAIN p /\ DOMAIN p["current"] = {})

\* C6: when the processed data is None, {} or has an empty 'current',
\* generate_recommendations returns the five categories, irrigation,
\* fertilization, timing and risk_assessment empty, and general holding
\* exactly one recommendation, high priority, 'Check sensor connectivity'.
C6_MissingReadingShortCircuits ==
  (pc \in {"recommended", "alerted"} /\ MissingCurrent(processed_data.ret)) =>
    /\ Returned(recommendations)
    /\ DOMAIN recommendations.ret =
         {"irrigation", "fertilization", "timing", "risk_assessment", "general"}
    /\ \A c \in {"irrigation", "fertilization", "timing", "risk_assessment"} :
         Len(recommendations.ret[c]) = 0
    /\ Len(recommendations.ret.general) = 1
    /\ recommendations.ret.general[1].priority = "high"
    /\ recommendations.ret.general[1].action = "Check sensor connectivity"

\* the engine has answered for the {} that process_sensor_data returns on
\* an empty reading
C6_RecommendedOnEmptyResult ==
  /\ pc = "recommended" /\ Returned(data_quality)
  /\ ~IsNone(processed_data.ret) /\ DOMAIN processed_data.ret = {}
  /\ Returned(recommendations)

\* sensor_status 'offline' and completeness 0
OfflineAndIncomplete(q) ==
  q.sensor_status = "offline" /\ RatEq(q.completeness, Rat(0, 1))

\* C7 as the specification words it: for an empty reading,
\* _assess_data_quality gives sensor_status 'offline' and completeness 0,
\* and so does the data_quality inside process_sensor_data's result.
C7_EmptyReadingIsOfflineEverywhere ==
  (IsEmpty(sensor_data) /\ Returned(data_quality)) =>
    /\ OfflineAndIncomplete(data_quality.ret)
    /\ pc = "processed" =>
         /\ Returned(processed_data)
         /\ "data_quality" \in DOMAIN processed_data.ret
         /\ OfflineAndIncomplete(processed_data.ret["data_quality"])

\* C7 as the code has it: for an empty reading, _assess_data_quality called
\* directly gives sensor_status 'offline' and completeness 0, while
\* process_sensor_data returns {} for that reading, with no data_quality
\* in it at all.
C7_EmptyReadingIsOfflineWhenAssessed ==
  (IsEmpty(sensor_data) /\ Returned(data_quality)) =>
    /\ OfflineAndIncomplete(data_quality.ret)
    /\ pc = "processed" =>
         /\ Returned(processed_data)
         /\ DOMAIN processed_data.ret = {}

\* an empty reading has been assessed and then processed
C7_EmptyReadingProcessed ==
  /\ pc = "processed" /\ sensor_data = EmptyDict
  /\ Returned(data_quality) /\ Returned(processed_data)

(***************************************************************************)
(* Short histories and descriptive statistics (SpecHistory).               *)
(***************************************************************************)
\* C8: a field with fewer than 10 non-null historical points yields no
\* anomaly, whatever its current value and whatever the other fields give.
C8_ShortHistoryHasNoAnomaly ==
  \A f \in FieldSet :
    (Analysed /\ f \in DOMAIN historical_data /\ Len(Series(f)) < 10) =>
      AnomaliesOf(f) = {}

\* nine points of 0.0 and a gap, a current value of 0.9, and an anomaly
\* reported for the steady Humidity column next to it
C8_ShortHistoryFarValue ==
  /\ Analysed
  /\ Len(Series(StudiedField)) = 9
  /\ DfLen(historical_data) >= 10
  /\ sensor_data[StudiedField] = Num(9)
  /\ AnomaliesOf("Humidity") # {}

\* the number of non-null entries of a column
NonNull(col) == Cardinality({i \in 1..Len(col) : col[i] # NoneV})

WellTypedReading ==
  /\ ~IsEmpty(sensor_data)
  /\ \A f \in FieldSet \cap DOMAIN sensor_data : Convertible(sensor_data[f])

\* a weather snapshot with wind_speed 25 m/s
Gale == ~IsNone(weather_data) /\ weather_data.wind_speed = 250

\* C9: with a current reading (its present sensor fields numbers, as the
\* data model requires) and a wind_speed of 25 m/s, the timing
\* recommendations hold a high-priority 'Cancel all spraying operations'
\* and the alerts hold a critical 'High Wind Alert'.
C9_GaleCancelsSprayingAndAlerts ==
  (pc = "alerted" /\ WellTypedReading /\ Gale) =>
    /\ Returned(recommendations)
    /\ \E i \in 1..Len(recommendations.ret.timing) :
         /\ recommendations.ret.timing[i].priority = "high"
         /\ recommendations.ret.timing[i].action = "Cancel all spraying operations"
    /\ Returned(alerts)
    /\ \E j \in 1..Len(alerts.ret) :
         /\ alerts.ret[j].priority = "critical"
         /\ alerts.ret[j].title = "High Wind Alert"

\* both engines have answered for a reading under a 25 m/s wind
C9_GaleReported ==
  /\ pc = "alerted" /\ WellTypedReading /\ Gale
  /\ Returned(recommendations) /\ Returned(alerts)
  /\ Len(alerts.ret) > 0

(***************************************************************************)
(* Trends (SpecHistory).                                                   *)
(***************************************************************************)
\* every value above the one before it
StrictlyIncreasing(y) == \A i \in 1..(Len(y) - 1) : y[i] < y[i + 1]

\* every value the same step above the one before it
EquallySpaced(y) ==
  \A i \in 1..(Len(y) - 2) : y[i + 1] - y[i] = y[i + 2] - y[i + 1]

\* a correlation of exactly 1.0
IsOne(x) == x.k = "root" /\ x.s = 1 /\ x.n = x.d

InUnitInterval(x) == MagLeOne(x) /\ x.s >= 0

\* C12 as the specification words it: every trend entry, a constant field's
\* included, has direction in {increasing, decreasing, stable}, strength a
\* number in [0,1], correlation a number in [-1,1], strength = |correlation|.
C12_TrendEntriesAreBounded ==
  Analysed =>
    \A f \in DOMAIN processed_data.ret.trends :
      LET trend == processed_data.ret.trends[f]
      IN  /\ trend.direction \in {"increasing", "decreasing", "stable"}
          /\ InUnitInterval(trend.strength)
          /\ MagLeOne(trend.correlation)
          /\ trend.strength.s = Abs(trend.correlation.s)
          /\ trend.strength.n * trend.correlation.d
               = trend.correlation.n * trend.strength.d

(***************************************************************************)
(* The quality of a complete reading (SpecClock).                          *)
(***************************************************************************)
\* _assess_data_quality has just been called on sensor_data, at time now
Assessed == pc = "scored" /\ Returned(data_quality)

\* all 8 expected fields present, each one a number
AllFieldsNumeric ==
  /\ ~IsEmpty(sensor_data)
  /\ \A f \in FieldSet : f \in DOMAIN sensor_data /\ Convertible(sensor_data[f])

\* the timestamp of the reading is the current time
StampedNow ==
  "timestamp" \in DOMAIN sensor_data /\ sensor_data["timestamp"] = Time(now)

\* a value inside the range that is usual for its sensor
Usual(f, v) ==
  IF f = "Temperature" THEN -100 <= v /\ v <= 550
  ELSE IF f = "Humidity" THEN 50 <= v /\ v <= 950
  ELSE IF f = "pH" THEN 30 <= v /\ v <= 110
  ELSE IF f = "Conductivity" THEN 0 <= v /\ v <= 50000
  ELSE IF f = "TDS" THEN 0 <= v /\ v <= 30000
  ELSE 0 <= v /\ v <= 2000

\* TDS within 50 % of 0.65 times the Conductivity
PairConsistent ==
  Abs(40 * sensor_data["TDS"].v - 26 * sensor_data["Conductivity"].v)
    <= 13 * sensor_data["Conductivity"].v

\* C13: a reading with all 8 fields present and valid and the timestamp at
\* the current time has freshness 'excellent' and completeness 100, and
\* reliability 100 when every value is in its usual range and the
\* Conductivity/TDS pair is consistent.
C13_CompleteFreshReadingScoresFull ==
  (Assessed /\ AllFieldsNumeric /\ StampedNow) =>
    /\ data_quality.ret.freshness = "excellent"
    /\ RatEq(data_quality.ret.completeness, Rat(100, 1))
    /\ ((\A f \in FieldSet : Usual(f, sensor_data[f].v)) /\ PairConsistent) =>
         data_quality.ret.reliability = 100

\* a complete, usual, consistent reading stamped at a time other than 0 has
\* been assessed at that time
C13_CompleteReadingAssessed ==
  /\ Assessed /\ AllFieldsNumeric /\ StampedNow /\ now > 0
  /\ \A f \in FieldSet : Usual(f, sensor_data[f].v)
  /\ PairConsistent

(***************************************************************************)
(* A field that float() rejects, in the quality score (Spec).              *)
(***************************************************************************)
\* C14 as the specification words it: a present sensor field that is not
\* convertible to float counts as absent for completeness and costs
\* reliability: the score is 15 lower (not below 0) than for the same
\* reading with that field removed.
C14_NonConvertibleFieldIsPenalised ==
  \A f \in FieldSet :
    (Returned(data_quality) /\ ~IsEmpty(sensor_data)
       /\ f \in DOMAIN sensor_data /\ ~Convertible(sensor_data[f])) =>
      LET removed ==
            assess_data_quality(Without(sensor_data, f), historical_data, now)
      IN  /\ RatEq(data_quality.ret.completeness, removed.completeness)
          /\ data_quality.ret.reliability = Max2(0, removed.reliability - 15)

(***************************************************************************)
(* Forecast rainfall in the irrigation rules (Spec).                       *)
(***************************************************************************)
\* the 'rainfall' of the first 8 forecast points, summed
RainfallAhead ==
  SumSeq([i \in 1..Min2(8, Len(forecast_data)) |->
            IF "rainfall" \in DOMAIN forecast_data[i]
            THEN forecast_data[i].rainfall ELSE 0])

\* the irrigation list holds an entry with this priority and action
Irrigation(priority, action) ==
  \E i \in 1..Len(recommendations.ret.irrigation) :
    /\ recommendations.ret.irrigation[i].priority = priority
    /\ recommendations.ret.irrigation[i].action = action

\* the irrigation list holds an entry with this action
IrrigationAction(action) ==
  \E i \in 1..Len(recommendations.ret.irrigation) :
    recommendations.ret.irrigation[i].action = action

\* C15 as the specification words it: the irrigation rules use the
\* 'rainfall' summed over the first 8 forecast points: with Humidity < 25
\* and a sum above 10 the list holds the medium 'Light irrigation before
\* expected rain' and not 'Immediate deep irrigation required'; with
\* 25 <= Humidity < 40 and a sum above 5 it holds the low 'Monitor soil
\* conditions' and not 'Moderate irrigation recommended'.
C15_ForecastRainfallDefersIrrigation ==
  (Recommended /\ "Humidity" \in DOMAIN sensor_data) =>
    LET soil_humidity == sensor_data["Humidity"].v
    IN  /\ (soil_humidity < 250 /\ RainfallAhead > 100) =>
             /\ Irrigation("medium", "Light irrigation before expected rain")
             /\ ~IrrigationAction("Immediate deep irrigation required")
        /\ (250 <= soil_humidity /\ soil_humidity < 400 /\ RainfallAhead > 50) =>
             /\ Irrigation("low", "Monitor soil conditions")
             /\ ~IrrigationAction("Moderate irrigation recommended")

(***************************************************************************)
(* The shape of a recommendation (Spec).                                   *)
(***************************************************************************)
Categories ==
  {"irrigation", "fertilization", "timing", "risk_assessment", "general"}

\* C16 as the specification words it: every recommendation of every
\* category carries a priority in {high, medium, low} and the fields
\* action, reason and timing.
C16_RecommendationsAreWellFormed ==
  Recommended =>
    \A c \in Categories :
      \A i \in 1..Len(recommendations.ret[c]) :
        LET rec == recommendations.ret[c][i]
        IN  /\ {"priority", "action", "reason", "timing"} \subseteq DOMAIN rec
            /\ rec.priority \in {"high", "medium", "low"}

(***************************************************************************)
(* The order of the alerts (Spec).                                         *)
(***************************************************************************)
\* display_critical_alerts has rendered the alerts of a current reading
AlertsShown ==
  /\ pc \in {"alerted", "displayed"}
  /\ Returned(alerts) /\ Returned(shown)
  /\ ~IsEmpty(CurrentOf(processed_data.ret))

\* critical before warning before info
AlertRank(a) ==
  IF a.priority = "critical" THEN 0 ELSE IF a.priority = "warning" THEN 1 ELSE 2

\* C17: for a current reading, the alert list is the sensor alerts, then the
\* data-quality alerts, then the anomaly alerts, then the weather alerts
\* (when there is weather), then the system-health alerts; the display
\* renders every critical alert before every warning and every warning
\* before every info alert, in generation order inside a bucket.
C17_AlertsAreOrdered ==
  AlertsShown =>
    LET processed == processed_data.ret
        current_data == processed["current"]
    IN  /\ alerts.ret =
             check_sensor_alerts(current_data).ret
               \o check_data_quality_alerts(processed["data_quality"])
               \o check_anomaly_alerts(processed["anomalies"])
               \o (IF IsNone(weather_data) THEN <<>>
                   ELSE check_weather_alerts(weather_data, current_data).ret)
               \o check_system_health_alerts(current_data, now).ret
        /\ alerts.ret # <<>> => Len(shown.ret) = Len(alerts.ret)
        /\ \A i, j \in 1..Len(shown.ret) :
             i < j => AlertRank(shown.ret[i]) <= AlertRank(shown.ret[j])
        /\ \A p \in {"critical", "warning", "info"} :
             Bucket(shown.ret, p) = Bucket(alerts.ret, p)

\* a warning was generated ahead of a critical alert, from the sensor checks
\* and from the weather checks, and the display has moved it behind
C17_AlertsReordered ==
  /\ AlertsShown
  /\ ~IsNone(weather_data)
  /\ Len(check_weather_alerts(weather_data, processed_data.ret["current"]).ret) > 0
  /\ Len(check_sensor_alerts(processed_data.ret["current"]).ret) > 0
  /\ \E i, j \in 1..Len(alerts.ret) :
       i < j /\ AlertRank(alerts.ret[i]) > AlertRank(alerts.ret[j])

(***************************************************************************)
(* The order of the rendered recommendations (Spec).                       *)
(***************************************************************************)
\* high before medium before low
RecRank(rec) ==
  IF rec.priority = "high" THEN 0 ELSE IF rec.priority = "medium" THEN 1 ELSE 2

\* the entries of a list that have this priority, in list order
WithPriority(recs, priority) ==
  LET Has(r) == r.priority = priority IN SelectSeq(recs, Has)

\* C18: within each category the recommendations are rendered high first,
\* then medium, then low, and entries of one priority are rendered in the
\* order in which the engine inserted them.
C18_RecommendationsRenderedByPriority ==
  (pc = "displayed" /\ Returned(rendered) /\ ~IsEmpty(rendered.ret)) =>
    \A c \in DOMAIN recommendations.ret :
      LET built == recommendations.ret[c]
          drawn == rendered.ret[c]
      IN  /\ Len(drawn) = Len(built)
          /\ \A i, j \in 1..Len(drawn) :
               i < j => RecRank(drawn[i]) <= RecRank(drawn[j])
          /\ \A p \in {"high", "medium", "low"} :
               WithPriority(drawn, p) = WithPriority(built, p)

\* a category the engine built with a lower priority ahead of a higher one,
\* and with two entries of one priority, has been rendered
C18_CategoryReordered ==
  /\ pc = "displayed" /\ Returned(rendered) /\ ~IsEmpty(rendered.ret)
  /\ \E c \in DOMAIN recommendations.ret :
       LET built == recommendations.ret[c]
       IN  /\ \E i, j \in 1..Len(built) :
                i < j /\ RecRank(built[i]) > RecRank(built[j])
           /\ \E i, j \in 1..Len(built) :
                i < j /\ RecRank(built[i]) = RecRank(built[j])

(***************************************************************************)
(* Alerts from anomalies (Spec).                                           *)
(***************************************************************************)
\* the title of the alert an anomaly of this field raises
UnusualTitle(f) == "Unusual " \o f \o " Reading"

\* the alerts that come from anomalies, in list order
UnusualAlerts ==
  LET Unusual(a) == a.title \in {UnusualTitle(f) : f \in FieldSet}
  IN  SelectSeq(alerts.ret, Unusual)

\* the anomalies of this severity in the processed data, in list order
AnomaliesWith(severity) ==
  LET Has(a) == a.severity = severity
  IN  SelectSeq(processed_data.ret["anomalies"], Has)

\* C19: the anomaly-derived alerts are exactly one alert per anomaly of
\* severity 'high', each with priority 'warning'; an anomaly of severity
\* 'medium' never produces an alert.
C19_OnlyHighAnomaliesAlert ==
  AlertsShown =>
    /\ Len(UnusualAlerts) = Len(AnomaliesWith("high"))
    /\ \A i \in 1..Len(UnusualAlerts) :
         /\ UnusualAlerts[i].priority = "warning"
         /\ UnusualAlerts[i].title = UnusualTitle(AnomaliesWith("high")[i].field)
    /\ \A i \in 1..Len(AnomaliesWith("medium")) :
         \A j \in 1..Len(alerts.ret) :
           alerts.ret[j].title # UnusualTitle(AnomaliesWith("medium")[i].field)

\* the alerts of a reading with one anomaly of each severity
C19_MixedAnomaliesAlerted ==
  /\ AlertsShown
  /\ Len(AnomaliesWith("medium")) > 0
  /\ Len(AnomaliesWith("high")) > 0
  /\ Len(UnusualAlerts) > 0

(***************************************************************************)
(* The salinity gate (Spec).                                               *)
(***************************************************************************)
\* the recommendations that ask for nitrogen, phosphorus or potassium to be
\* applied
Applications ==
  {"Emergency nitrogen application", "Nitrogen supplementation needed",
   "Phosphorus fertilization critical", "Increase phosphorus application",
   "Potassium supplementation urgent", "Increase potassium levels"}

\* C20 as the specification words it: whenever Conductivity > 250 the
\* fertilization list holds the high-priority 'Address soil salinity before
\* fertilizing', and no nitrogen, phosphorus or potassium application is
\* rendered ahead of it or with priority 'high'.
C20_SalinityGatesFertilization ==
  (pc = "displayed" /\ Returned(rendered)
     /\ "Conductivity" \in DOMAIN sensor_data
     /\ sensor_data["Conductivity"].v > 2500) =>
    LET drawn == rendered.ret.fertilization
    IN  \E g \in 1..Len(drawn) :
          /\ drawn[g].priority = "high"
          /\ drawn[g].action = "Address soil salinity before fertilizing"
          /\ \A i \in 1..Len(drawn) :
               drawn[i].action \in Applications =>
                 i > g /\ drawn[i].priority # "high"

(***************************************************************************)
(* The reliability score and the count of impossible values (Spec).        *)
(***************************************************************************)
\* _assess_data_quality has scored the non-empty reading in sensor_data
Scored == Assessed /\ ~IsEmpty(sensor_data)

\* a value the sensor of that field cannot physically report
Impossible(f, v) ==
  IF f = "Temperature" THEN v < -200 \/ v > 700
  ELSE IF f = "Humidity" THEN v < 0 \/ v > 1000
  ELSE IF f = "pH" THEN v < 0 \/ v > 140
  ELSE ~Usual(f, v)

\* the present fields of the reading whose value is impossible
ImpossibleFields ==
  {f \in present_fields(sensor_data) : Impossible(f, sensor_data[f].v)}

\* the points an impossible value of the field costs
ImpossibleCost(f) ==
  IF f = "pH" THEN 20 ELSE IF f \in {"Temperature", "Humidity"} THEN 15 ELSE 10

\* the points a possible but unusual value of the field costs
UnusualCost(f) == IF f = "pH" THEN 10 ELSE 5

\* the points the value of one field of the reading costs
Charge(f) ==
  IF f \notin present_fields(sensor_data) THEN 0
  ELSE IF Impossible(f, sensor_data[f].v) THEN ImpossibleCost(f)
  ELSE IF ~Usual(f, sensor_data[f].v) THEN UnusualCost(f)
  ELSE 0

\* the points an inconsistent Conductivity/TDS pair costs
PairCharge ==
  IF {"Conductivity", "TDS"} \subseteq present_fields(sensor_data) /\ ~PairConsistent
  THEN 8 ELSE 0

TotalPenalties ==
  Charge("Temperature") + Charge("Humidity") + Charge("pH") + Charge("Nitrogen")
    + Charge("Phosphorus") + Charge("Potassium") + Charge("Conductivity")
    + Charge("TDS") + PairCharge

\* the quality of the reading with the value of field f put right
Mended(f) ==
  assess_data_quality(WithField(sensor_data, f, HealthyReading[f]),
                      historical_data, now)

\* the points the reading loses to the impossible value of field f, where
\* the score has not run into its floor and the salinity cross-check does
\* not look at f
LostTo(f) == Mended(f).reliability - data_quality.ret.reliability

Measurable(f) ==
  /\ f \in ImpossibleFields \ {"Conductivity", "TDS"}
  /\ data_quality.ret.reliability > 0

\* C21 as the specification words it: every impossible value of a present
\* field costs between 15 and 20 points of reliability.
C21_ImpossibleValuesCostFifteenToTwenty ==
  Scored => \A f \in FieldSet : Measurable(f) => LostTo(f) \in 15..20

\* C21, amended: for every non-empty reading the reliability lies in
\* [0,100] and equals max(0, 100 - total penalties); an impossible value of
\* a present field costs 15 points for Temperature and Humidity, 20 for pH
\* and 10 for the nutrient, Conductivity and TDS sensors; anomaly_count is
\* the number of present fields whose value is impossible.
C21_ReliabilityIsHundredLessPenalties ==
  Scored =>
    /\ data_quality.ret.reliability \in 0..100
    /\ data_quality.ret.reliability = Max2(0, 100 - TotalPenalties)
    /\ data_quality.ret.anomaly_count = Cardinality(ImpossibleFields)
    /\ \A f \in FieldSet :
         Measurable(f) => LostTo(f) = ImpossibleCost(f) /\ LostTo(f) \in 10..20

\* a reading with an impossible nutrient value and another impossible value
\* has been scored above the floor
C21_ImpossibleNutrientScored ==
  /\ Scored
  /\ Measurable("Nitrogen")
  /\ Cardinality(ImpossibleFields) >= 2
  /\ TotalPenalties > 0

(***************************************************************************)
(* The freshness bucket and the sensor status (SpecClock).                 *)
(***************************************************************************)
\* the timestamp of the reading is one that datetime.fromisoformat parses
Parses == "timestamp" \in DOMAIN sensor_data /\ sensor_data["timestamp"].k = "time"

\* the age of the reading in minutes, at the current time
Age == now - sensor_data["timestamp"].v

\* the bucket of an age
BucketOf(a) ==
  IF a < 5 THEN "excellent"
  ELSE IF 5 <= a /\ a < 15 THEN "good"
  ELSE IF 15 <= a /\ a < 60 THEN "fair"
  ELSE IF 60 <= a /\ a < 360 THEN "poor"
  ELSE "stale"

\* the status that goes with a bucket
StatusOf(bucket) ==
  IF bucket \in {"excellent", "good"} THEN "online"
  ELSE IF bucket = "fair" THEN "delayed"
  ELSE IF bucket = "poor" THEN "intermittent"
  ELSE "offline"

\* the data_quality of the processed reading agrees with the current time
FreshnessFollowsAge ==
  (Returned(processed_data) /\ ~IsEmpty(sensor_data)) =>
    LET quality == processed_data.ret.data_quality
    IN  IF "timestamp" \notin DOMAIN sensor_data
        THEN quality.freshness = "unknown" /\ quality.sensor_status = "unknown"
        ELSE IF ~Parses
        THEN quality.freshness = "unknown" /\ quality.sensor_status = "error"
        ELSE /\ quality.freshness = BucketOf(Age)
             /\ quality.sensor_status = StatusOf(quality.freshness)

\* C22: whenever process_sensor_data is called on a non-empty reading, a
\* timestamp that parses and is a minutes old gives freshness excellent if
\* a < 5, good if 5 <= a < 15, fair if 15 <= a < 60, poor if 60 <= a < 360
\* and stale otherwise, with sensor_status online, online, delayed,
\* intermittent and offline; a timestamp that does not parse gives unknown
\* and error; no timestamp gives unknown and unknown.
C22_FreshnessFollowsAge ==
  [][(pc' = "processed" /\ now' = now) => FreshnessFollowsAge']_vars

\* a reading has been processed exactly 60 minutes after its timestamp
C22_ProcessedOnTheHour ==
  /\ pc = "processed" /\ Returned(processed_data)
  /\ Parses /\ Age = 60
  /\ processed_data.ret.data_quality.last_update = Ago(60)
  /\ processed_data.ret.data_quality.freshness = "poor"

(***************************************************************************)
(* The shape of the reported anomalies (SpecHistory).                      *)
(***************************************************************************)
\* current_value lies strictly outside expected_range, whose centre is a
\* Rat and whose half-width is a Root
OutsideRange(a) ==
  LET m == a.expected_range.centre
      h == a.expected_range.half
  IN  Sq(a.current_value.n * m.d - m.n * a.current_value.d) * h.d
        > h.n * Sq(m.d * a.current_value.d)

\* C23 as the specification words it: every anomaly is for a field with at
\* least 10 non-null historical points, has current_value strictly outside
\* expected_range with low <= high, a finite z_score with |z_score| > 2,
\* and severity 'high' exactly when |z_score| > 3 (otherwise 'medium'); at
\* most one anomaly is reported per field.
C23_AnomaliesAreWellFormed ==
  Analysed =>
    /\ \A f \in FieldSet : Cardinality(AnomaliesOf(f)) <= 1
    /\ \A i \in 1..Len(processed_data.ret.anomalies) :
         LET a == processed_data.ret.anomalies[i]
         IN  /\ Len(Series(a.field)) >= 10
             /\ a.expected_range.half.s >= 0
             /\ OutsideRange(a)
             /\ IsFinite(a.z_score)
             /\ MagGt(a.z_score, 2, 1)
             /\ a.severity \in {"high", "medium"}
             /\ (a.severity = "high") <=> MagGt(a.z_score, 3, 1)

(***************************************************************************)
(* What one run of main() leaves to the next (SpecCycles).                 *)
(***************************************************************************)
\* what the three engines make of the inputs of the current run
ProcessedNow == process_sensor_data(sensor_data, historical_data, now)
RecommendedNow ==
  generate_recommendations(ProcessedNow.ret, weather_data, forecast_data)
AlertedNow == generate_alerts(ProcessedNow.ret, weather_data, now)

\* C24: in every run, however many runs came before it on the same cached
\* DataProcessor, AgriculturalAI and AlertSystem, the ProcessedData, the
\* recommendations and the alerts are what the engines make of that run's
\* reading, history, weather, forecast and clock, and of nothing else; a
\* run that ends in the exception handler has failed at the first engine
\* that raises on these inputs.
C24_RunsDependOnTheirInputsOnly ==
  /\ pc \in {"processed", "recommended", "alerted", "displayed"} =>
       processed_data = ProcessedNow /\ Returned(ProcessedNow)
  /\ pc \in {"recommended", "alerted", "displayed"} =>
       recommendations = RecommendedNow /\ Returned(RecommendedNow)
  /\ pc \in {"alerted", "displayed"} =>
       alerts = AlertedNow /\ Returned(AlertedNow)
  /\ pc = "failed" =>
       /\ processed_data = ProcessedNow
       /\ Returned(ProcessedNow) => recommendations = RecommendedNow
       /\ (Returned(ProcessedNow) /\ Returned(RecommendedNow)) =>
            alerts = AlertedNow /\ Raised(AlertedNow)

\* a later run has processed a reading without anomalies while the alerts
\* of the run before it, raised for an unusual temperature, are still bound
C24_QuietRunAfterUnusualRun ==
  /\ pc = "processed" /\ now > 0
  /\ historical_data = SwingingFrame
  /\ processed_data.ret.anomalies = <<>>
  /\ Returned(alerts) /\ Len(UnusualAlerts) > 0

(***************************************************************************)
(* A sensor that did not report, in the recommendations (Spec).            *)
(***************************************************************************)
\* the fertilization entries that speak about one nutrient
NutrientActions(f) ==
  IF f = "Nitrogen"
  THEN {"Emergency nitrogen application", "Nitrogen supplementation needed",
        "Reduce nitrogen inputs"}
  ELSE IF f = "Phosphorus"
  THEN {"Phosphorus fertilization critical", "Increase phosphorus application",
        "Reduce phosphorus applications"}
  ELSE {"Potassium supplementation urgent", "Increase potassium levels"}

\* C25 as the specification words it: for a non-empty reading, a missing
\* Humidity gives no irrigation entry, and a missing Nitrogen, Phosphorus
\* or Potassium gives no fertilization entry about that nutrient.
C25_AbsentFieldGivesNoRecommendation ==
  (Recommended /\ ~IsEmpty(sensor_data)) =>
    /\ "Humidity" \notin DOMAIN sensor_data => recommendations.ret.irrigation = <<>>
    /\ \A f \in {"Nitrogen", "Phosphorus", "Potassium"} :
         f \notin DOMAIN sensor_data =>
           \A i \in 1..Len(recommendations.ret.fertilization) :
             recommendations.ret.fertilization[i].action \notin NutrientActions(f)

(***************************************************************************)
(* The 'all systems normal' banner (Spec).                                 *)
(***************************************************************************)
\* the page shows the banner
BannerShown ==
  Returned(shown) /\ \E i \in 1..Len(shown.ret) : shown.ret[i] = AllNormal

\* C26 as the specification words it: the banner is shown only for a
\* present current reading that raises no alert; when the current reading
\* is absent (process_sensor_data returned an empty result)
\* display_critical_alerts does not show it.
C26_BannerOnlyForAPresentReading ==
  (pc \in {"alerted", "displayed"} /\ BannerShown) =>
    /\ ~IsEmpty(sensor_data)
    /\ ~IsEmpty(CurrentOf(processed_data.ret))
    /\ alerts = Ret(<<>>)

(***************************************************************************)
(* The alert for old sensor data (SpecClock).                              *)
(***************************************************************************)
\* the alerts have been generated from a reading whose timestamp parsed
AlertedOnAgedReading ==
  /\ pc \in {"alerted", "displayed"}
  /\ Returned(alerts)
  /\ ~IsEmpty(CurrentOf(processed_data.ret))
  /\ processed_data.ret.data_quality.last_update.k = "ago"

\* the age in minutes that _assess_data_quality found
ScoredAge == processed_data.ret.data_quality.last_update.v

\* the alert list holds the critical 'Stale Sensor Data'
StaleAlertRaised ==
  \E i \in 1..Len(alerts.ret) :
    alerts.ret[i].priority = "critical" /\ alerts.ret[i].title = "Stale Sensor Data"

\* C27 as the specification words it: every reading whose timestamp parses
\* and is more than 1 hour old raises the critical 'Stale Sensor Data'
\* alert, however old it is.
C27_OldReadingsRaiseStaleAlert ==
  (AlertedOnAgedReading /\ ScoredAge > 60) => StaleAlertRaised

(***************************************************************************)
(* A timestamp ahead of the clock (SpecClock).                             *)
(***************************************************************************)
\* C29 as the specification words it: freshness 'excellent' is given only
\* to a reading whose age is in [0, 5) minutes, and a reading whose
\* timestamp lies in the future is never classified as excellent or good.
C29_FutureReadingsAreNotFresh ==
  (Assessed /\ ~IsEmpty(sensor_data)) =>
    /\ data_quality.ret.freshness = "excellent" => Parses /\ 0 <= Age /\ Age < 5
    /\ (Parses /\ Age < 0) =>
         data_quality.ret.freshness \notin {"excellent", "good"}

(***************************************************************************)
(* The data-quality gate of the general recommendations (SpecClock).       *)
(***************************************************************************)
\* the engine has returned for a processed, non-empty reading
RecommendedOnScoredReading ==
  /\ pc \in {"recommended", "alerted", "displayed"}
  /\ Returned(recommendations)
  /\ ~IsEmpty(CurrentOf(processed_data.ret))

\* the general list holds 'Check sensor system health'
HealthCheckAdvised ==
  \E i \in 1..Len(recommendations.ret.general) :
    recommendations.ret.general[i].action = "Check sensor system health"

\* C30 as the specification words it: 'Check sensor system health' is
\* emitted whenever the freshness of the processed reading is poor, stale or
\* unknown or its completeness is under 70, and is not emitted when the
\* freshness is excellent, good or fair and the completeness is 70 or more.
C30_HealthCheckFollowsQuality ==
  RecommendedOnScoredReading =>
    LET quality == processed_data.ret.data_quality
        incomplete == RatLt(quality.completeness, Rat(70, 1))
    IN  /\ (quality.freshness \in {"poor", "stale", "unknown"} \/ incomplete) =>
             HealthCheckAdvised
        /\ (quality.freshness \in {"excellent", "good", "fair"} /\ ~incomplete) =>
             ~HealthCheckAdvised

(***************************************************************************)
(* Auto-refresh (SpecAutoRefresh).                                         *)
(***************************************************************************)
\* process_sensor_data runs after both fetches, generate_recommendations
\* after it and display_critical_alerts after that
PipelineInOrder ==
  /\ processed_data' # processed_data => pc = "fetched"
  /\ recommendations' # recommendations => pc = "processed"
  /\ alerts' # alerts => pc = "recommended"
  /\ pc' = "fetched" => pc = "sensed"
  /\ pc' = "sensed" => pc = "start"

\* C28 as the specification words it: with auto-refresh enabled every run
\* of main() is eventually followed by another run, also a run whose sensor
\* fetch returns no current reading or whose pipeline raises; and in every
\* run process_sensor_data runs after both fetches and before
\* generate_recommendations and display_critical_alerts.
C28_EveryRunIsFollowedByAnother ==
  /\ (pc # "start") ~> (pc = "start")
  /\ [][PipelineInOrder]_vars

=============================================================================
